---------------------------- MODULE Spec2Model ----------------------------
(***************************************************************************)
(* Model of the security monitoring subsystem of shinai-website-secure:    *)
(*   - AuditLogger   (security/monitoring/src/loggers/auditLogger.js)      *)
(*   - AlertManager  (unnamed/part_002)                                    *)
(*   - the orchestrator processSecurityEvent and its weekly cleanup job    *)
(*     (security/monitoring/src/app.js)                                    *)
(*   - ThreatDetector (security/monitoring/src/detectors/                  *)
(*     threatDetector.js)                                                  *)
(* Each component has its own specification (SpecAudit, SpecIntegrity,     *)
(* SpecRetention, SpecAlert, SpecPipeline, SpecScorer) over the shared     *)
(* state; a component's actions leave the other components' variables      *)
(* unchanged.                                                              *)
(***************************************************************************)
EXTENDS Integers, Sequences, FiniteSets, TLC

(***************************************************************************)
(* Bounds of the model                                                     *)
(***************************************************************************)
\* audit entries recorded in one behaviour
MaxEntries == 2
\* auditConfig.batch_size, scaled down from the source's 100
BatchSize == 2
\* last calendar day the clock reaches (days are numbered from 0)
MaxDay == 1
\* modifications of stored documents by a third party in one behaviour
MaxTamper == 1
\* concurrent executions of flushLogBuffer (timer callbacks and record calls)
MaxFlush == 2

\* events the orchestrator receives in one behaviour
MaxEvents == 2
\* calls of the Alert Dispatcher in one behaviour
MaxAlertCalls == 3
\* seconds by which the cache's clock advances in one step
TickSeconds == 300
\* last instant the cache's clock reaches, seconds
MaxAlertClock == 900
\* checks and patterns that find something for one analysed event
MaxFindings == 3
\* calls of analyzeThreat in one behaviour
MaxAnalyses == 2
\* patterns of the constitutional principles that match one checked content
MaxMatches == 2
\* calls of checkCompliance in one behaviour
MaxChecks == 2
\* metrics of the monitor that are away from their quiet value at one time
MaxUnhealthy == 2
\* calls of checkSystemHealth in one behaviour
MaxHealthChecks == 2
\* anomalies counted before detectAnomalies is called for the last time
MaxAnomalies == 2
\* runs of one scheduled job in progress at one time
MaxRuns == 2
\* last calendar day the clock reaches when it moves from one run of the
\* weekly cleanup to the next
MaxRetentionDay == 45

(***************************************************************************)
(* Program constants                                                       *)
(***************************************************************************)
\* alertConfig.threat.cooldown, seconds
ThreatCooldown == 300
\* alertConfig.compliance.cooldown, seconds
ComplianceCooldown == 600
\* alertConfig.system.cooldown, seconds
SystemCooldown == 900
\* milliseconds of one calendar day
DayMs == 86400000
\* 03:00:00.000, the minute in which dailyCheck starts the integrity check
CheckTod == 10800000
\* 23:59:59.999, the upper end of the integrity check's query
LastTod == 86399999
\* 03:00:00.000, the minute of cron '0 3 * * 0'
CleanupTod == 10800000
\* days the orchestrator's cleanupOldLogs goes back for its cutoffDate
CleanupCutoffDays == 30
\* auditConfig.log_retention_days
LogRetentionDays == 90
\* days cleanupOldLogs keeps the documents of constitutional_violations
ViolationRetentionDays == 90

VARIABLES
    \* ---- AuditLogger ----
    logBuffer,        \* this.logBuffer
    auditStore,       \* collection security_audit_logs
    auditIntegrity,   \* collection audit_integrity, by date
    mongoUp,          \* this.mongodb.readyState === 1
    cipherOk,         \* crypto.createCipher works in this runtime
    flush,            \* the executions of flushLogBuffer in progress
    now,              \* wall clock: <<days since 1970-01-01, millisecond of the day>>
    nextId,           \* entries recorded so far (stands for crypto.randomUUID)
    integrityViolations, \* stats.integrity_violations
    searchResult,     \* what the searchLogs call that has just returned gave its caller
    tampered,         \* _ids of stored documents modified by a third party
    violations,       \* collection constitutional_violations
    lastCheckDay,     \* the day on which dailyCheck last started the check
    recordOutcome,    \* how each call of logSecurityEvent ended, by entry id
    \* ---- AlertManager ----
    cooldown,         \* redis keys alert:cooldown:<type>:<identifier>, by expiry time
    redisUp,          \* the redis client answers
    mailOk,           \* mailTransporter and emailAddress are set and sendMail works
    webhookOk,        \* webhookUrl is set and the POST succeeds
    alertNow,         \* wall clock of the cache, seconds
    calls,            \* the calls of sendThreatAlert, sendComplianceAlert and
                      \* sendSystemAlert so far, in the order they were made
    alertStats,       \* this.stats of the AlertManager
    \* ---- orchestrator ----
    events,           \* the calls of processSecurityEvent so far
    pipeStats,        \* this.stats of ShinAISecurityMonitoringSystem
    securityMetrics,  \* metrics:requests:total, the counter updateSecurityMetrics increments
    \* ---- ThreatDetector ----
    analysis,         \* the call of analyzeThreat in progress: what the checks find
                      \* for its event, the analyzer it is at, and analysisResult
    threatStats,      \* this.stats of the ThreatDetector
    lastIndex,        \* lastIndex of the regular expressions of threatPatterns that
                      \* carry the flag g: 0 at the start of the text, 1 behind
                      \* the match
    ipRequests,       \* the redis key threat:ip_requests:<ip> of one source IP
                      \* (its value and the instant its TTL ends), the clock of
                      \* the cache, the instants of the IP's requests, and what
                      \* the rate check found for the IP
    \* ---- ComplianceChecker ----
    compliance,       \* the call of checkCompliance in progress: the patterns that
                      \* match its content, where it is, and its result
    complianceStats,  \* this.stats of the ComplianceChecker
    \* ---- SecurityMonitor ----
    currentMetrics,   \* this.currentMetrics, each value by its place among the
                      \* thresholds it is compared with
    health,           \* the call of checkSystemHealth in progress
    anomalyScan,      \* the call of detectAnomalies in progress
    monitorStats,     \* this.stats of the SecurityMonitor
    metricsHistory,   \* the redis list metrics:<category>:history of one category
                      \* (newest sample at the head) and the call of storeMetrics
                      \* in progress
    \* ---- process: scheduled jobs and shutdown ----
    jobRuns,          \* the runs of each scheduled job in progress: the await
                      \* each run is at, in the order the runs started
    shutdown          \* isShuttingDown and the await gracefulShutdown is at

auditVars == <<logBuffer, auditStore, auditIntegrity, mongoUp, cipherOk, flush,
               now, nextId, integrityViolations, searchResult, tampered,
               violations, lastCheckDay, recordOutcome>>

alertVars == <<cooldown, redisUp, mailOk, webhookOk, alertNow, calls, alertStats>>

pipeVars == <<events, pipeStats, securityMetrics>>

scorerVars == <<analysis, threatStats, lastIndex, ipRequests>>

checkerVars == <<compliance, complianceStats>>

monitorVars == <<currentMetrics, health, anomalyScan, monitorStats, metricsHistory>>

processVars == <<jobRuns, shutdown>>

vars == <<auditVars, alertVars, pipeVars, scorerVars, checkerVars, monitorVars, processVars>>

\* what the operations of one component leave alone
nonAuditVars == <<alertVars, pipeVars, scorerVars, checkerVars, monitorVars, processVars>>

nonAlertVars == <<auditVars, pipeVars, scorerVars, checkerVars, monitorVars, processVars>>

(***************************************************************************)
(* Helpers                                                                 *)
(***************************************************************************)
Range(s) == {s[i] : i \in 1..Len(s)}

NoDup(s) == \A i, j \in 1..Len(s) : i # j => s[i] # s[j]

SeqMap(Op(_), s) == [i \in 1..Len(s) |-> Op(s[i])]

\* new Date(...) of a calendar day and a count of milliseconds into it: an
\* instant is the pair <<days since 1970-01-01, millisecond of the day>>
DateOf(day, ms) == <<day + ms \div DayMs, ms % DayMs>>

DayOf(ts) == ts[1]

TodOf(ts) == ts[2]

\* the order of two instants
Before(a, b) == a[1] < b[1] \/ (a[1] = b[1] /\ a[2] < b[2])

TodPoints == {CheckTod, LastTod}

\* the instants the model distinguishes, up to the integrity check of the last day
TimePoints ==
    {DateOf(d, t) : d \in 0..MaxDay, t \in TodPoints} \ {DateOf(MaxDay, LastTod)}

(***************************************************************************)
(* AuditLogger: pure functions                                             *)
(***************************************************************************)
EventTypes == {"threat_detected", "constitutional_violation"}

\* event payloads: one that matches none of the harmful patterns, one that does
Payloads == {"clean", "harmful"}

\* the calls of logSecurityEvent the orchestrator makes: a threat record and a
\* violation record (whose payload holds the violation's harmful wording)
RecordInputs == {<<"threat_detected", "clean">>, <<"constitutional_violation", "harmful">>}

Plain(p) == [encrypted |-> FALSE, data |-> <<"json", p>>]

\* Date.prototype.toISOString: the text with its date part and its
\* time-of-day part
toISOString(ts) == <<"iso", DayOf(ts), TodOf(ts)>>

\* checkConstitutionalCompliance: compliant unless a harmful pattern matches
checkConstitutionalCompliance(p) == p # "harmful"

\* encryptData: the cipher text, or the data itself when the cipher throws
encryptData(d, ok) ==
    IF ok THEN [encrypted |-> TRUE, data |-> <<"aes-256-cbc", d.data>>]
          ELSE d

\* decryptData: the parsed plain text; the argument when it is not encrypted
\* or when deciphering throws
decryptData(d, ok) ==
    IF ~d.encrypted THEN d
    ELSE IF ok THEN [encrypted |-> FALSE, data |-> d.data[2]]
    ELSE d

\* the metadata block logSecurityEvent builds from its (empty) metadata argument
BuildMetadata ==
    [source_system |-> "shinai-security-monitoring", node_id |-> "primary",
     source_ip |-> "null", user_id |-> "null"]

\* determineSeverity: the severity of the event type in severityMap; the
\* payloads of the model carry no severity or threat_level of their own
determineSeverity(eventType, p) ==
    IF eventType = "constitutional_violation" THEN "critical"
    ELSE IF eventType = "threat_detected" THEN "high"
    ELSE "medium"

\* calculateEntryHash: SHA-256 over the JSON text of the canonical fields
\* (the digest is modelled as collision free: the tuple it is computed over)
calculateEntryHash(entry) ==
    <<"sha256", entry.id, toISOString(entry.timestamp), entry.event_type,
      entry.event_data, entry.metadata>>

\* the entry with the hash computed before the payload is encrypted
NewEntryHashFirst(id, ts, eventType, p, encOk) ==
    LET e0 == [id |-> id, timestamp |-> ts, event_type |-> eventType,
               event_data |-> Plain(p),
               metadata |-> BuildMetadata,
               compliant |-> checkConstitutionalCompliance(p),
               severity |-> determineSeverity(eventType, p),
               encrypted |-> TRUE, hash |-> <<"null">>]
    IN  [e0 EXCEPT !.hash = calculateEntryHash(e0),
                   !.event_data = encryptData(Plain(p), encOk)]

\* the entry logSecurityEvent appends to the buffer: the payload is encrypted
\* first and the hash is computed over the entry that holds the cipher text
NewEntry(id, ts, eventType, p, encOk) ==
    LET e0 == [id |-> id, timestamp |-> ts, event_type |-> eventType,
               event_data |-> encryptData(Plain(p), encOk),
               metadata |-> BuildMetadata,
               compliant |-> checkConstitutionalCompliance(p),
               severity |-> determineSeverity(eventType, p),
               encrypted |-> TRUE, hash |-> <<"null">>]
    IN  [e0 EXCEPT !.hash = calculateEntryHash(e0)]

\* the document insertMany writes: the driver gives the entry object an _id
\* when it has none, so the same object always carries the same _id
toDoc(e) ==
    [_id |-> <<"oid", e.id>>, id |-> e.id, timestamp |-> e.timestamp,
     event_type |-> e.event_type, event_data |-> e.event_data,
     metadata |-> e.metadata, compliant |-> e.compliant,
     severity |-> e.severity,
     encrypted |-> e.encrypted, hash |-> e.hash]

\* a prefix of a batch the collection accepts: _id is unique in the collection
Insertable(batch, k) ==
    /\ NoDup(SubSeq(batch, 1, k))
    /\ \A i \in 1..k : \A j \in 1..Len(auditStore) :
           auditStore[j]._id # toDoc(batch[i])._id

\* the document of audit_integrity for a date that has none
NoIntegrityDoc ==
    [has_checksum |-> FALSE, daily_checksum |-> <<>>, log_count |-> 0,
     has_report |-> FALSE, total_logs |-> 0, valid_logs |-> 0, invalid_logs |-> 0]

IdleFlush ==
    [pc |-> "idle", logsToFlush |-> <<>>, owner |-> 0, ownerViolation |-> FALSE,
     today |-> 0]

\* the least flush execution slot that is free (0 when all are in progress)
FreeFlush ==
    IF \E f \in 1..MaxFlush : flush[f].pc = "idle"
    THEN CHOOSE f \in 1..MaxFlush :
             /\ flush[f].pc = "idle"
             /\ \A g \in 1..MaxFlush : flush[g].pc = "idle" => f <= g
    ELSE 0

(***************************************************************************)
(* AlertManager: pure functions                                            *)
(***************************************************************************)
AlertTypes == {"threat", "compliance", "system"}

\* the identifier parameter of isInCooldown and setCooldown: its default
\* 'general' stands in when the argument is undefined
Identifier(arg) == IF arg = "undefined" THEN "general" ELSE arg

\* metadata.source_ip of the threat results handed to sendThreatAlert
SourceIps == {"undefined", "10.0.0.1"}

\* `alert:cooldown:${alertType}:${identifier}`
CooldownKey(alertType, arg) == <<"alert:cooldown", alertType, Identifier(arg)>>

CooldownKeys ==
    {CooldownKey("threat", ip) : ip \in SourceIps}
    \cup {CooldownKey("compliance", "undefined"), CooldownKey("system", "undefined")}

\* a marker that is written with no time to live
CooldownOfNone(alertType) == 0

\* this.alertConfig[alertType]?.cooldown || 300
CooldownOf(alertType) ==
    CASE alertType = "threat" -> ThreatCooldown
      [] alertType = "compliance" -> ComplianceCooldown
      [] alertType = "system" -> SystemCooldown
      [] OTHER -> 300

\* alertConfig[alertType].channels
ChannelsOf(alertType) ==
    CASE alertType = "threat" -> <<"email", "webhook", "log">>
      [] alertType = "compliance" -> <<"email", "webhook", "log", "audit">>
      [] alertType = "system" -> <<"email", "log">>

\* a marker that is still found in the second in which its TTL runs out
KeyExistsLate(key) == cooldown[key] > 0 /\ cooldown[key] >= alertNow

\* redis.exists(key) === 1: the key is set and its TTL has not run out
KeyExists(key) == cooldown[key] > alertNow

\* the triggers of the dispatcher: a threat result with its metadata.source_ip,
\* a compliance result with or without a violation of severity critical, a
\* system status
AlertInputs ==
    {[type |-> "threat", arg |-> ip, critical |-> FALSE] : ip \in SourceIps}
    \cup {[type |-> "compliance", arg |-> "undefined", critical |-> c] : c \in BOOLEAN}
    \cup {[type |-> "system", arg |-> "undefined", critical |-> FALSE]}

(***************************************************************************)
(* AuditLogger: state                                                      *)
(***************************************************************************)
InitAuditThrough(lastDay) ==
    /\ logBuffer = <<>>
    /\ auditStore = <<>>
    /\ auditIntegrity = [d \in 0..lastDay |-> NoIntegrityDoc]
    /\ mongoUp = TRUE
    /\ cipherOk \in BOOLEAN
    /\ flush = [f \in 1..MaxFlush |-> IdleFlush]
    /\ now = DateOf(0, CheckTod)
    /\ nextId = 0
    /\ integrityViolations = 0
    /\ searchResult = <<>>
    /\ tampered = {}
    /\ violations = <<>>
    /\ lastCheckDay = 0
    /\ recordOutcome = [i \in 1..MaxEntries |-> "none"]

InitAudit == InitAuditThrough(MaxDay)

InitAlert ==
    /\ cooldown = [k \in CooldownKeys |-> 0]
    /\ redisUp = TRUE
    /\ mailOk \in BOOLEAN
    /\ webhookOk \in BOOLEAN
    /\ alertNow = 0
    /\ calls = <<>>
    /\ alertStats = [alerts_sent |-> 0, emails_sent |-> 0, webhooks_sent |-> 0,
                     failed_deliveries |-> 0, audit_records |-> 0]

InitPipeline ==
    /\ events = <<>>
    /\ pipeStats = [processed_events |-> 0, threats_detected |-> 0, alerts_sent |-> 0,
                    constitutional_violations |-> 0]
    /\ securityMetrics = 0

\* Object.entries(this.threatPatterns), in the order of the object literal
PatternOrder ==
    <<"sql_injection", "xss_attack", "csrf_attempt", "directory_traversal",
      "command_injection", "constitutional_violation">>

\* the number of regular expressions of a category
PatternCount(threatType) ==
    CASE threatType = "sql_injection" -> 3
      [] threatType = "xss_attack" -> 5
      [] threatType = "csrf_attempt" -> 2
      [] threatType = "directory_traversal" -> 4
      [] threatType = "command_injection" -> 3
      [] threatType = "constitutional_violation" -> 4

\* the regular expressions of threatPatterns, by category and position
Patterns ==
    UNION {{<<t, k>> : k \in 1..PatternCount(t)} : t \in Range(PatternOrder)}

\* the regular expressions written with the flag g
GlobalPatterns ==
    {<<"xss_attack", 1>>, <<"xss_attack", 4>>, <<"directory_traversal", 1>>,
     <<"directory_traversal", 2>>, <<"command_injection", 1>>}

\* no request of the IP has been seen: the key is absent (its TTL has ended)
NoRequests ==
    [count |-> 0, expires |-> 0, clock |-> 0, window |-> <<>>, peak |-> 0,
     flagged |-> FALSE]

\* no call of analyzeThreat has been made
NoAnalysis == [pc |-> "idle", found |-> {}, result |-> <<>>, caught |-> {}]

InitScorer ==
    /\ analysis = NoAnalysis
    /\ threatStats = [threats_analyzed |-> 0, threats_detected |-> 0]
    /\ lastIndex = [p \in GlobalPatterns |-> 0]
    /\ ipRequests = NoRequests

\* no call of checkCompliance has been made
NoCheck == [pc |-> "idle", content |-> {}, result |-> <<>>]

InitChecker ==
    /\ compliance = NoCheck
    /\ complianceStats = [checks_performed |-> 0, violations_detected |-> 0]

\* this.currentMetrics as the constructor of SecurityMonitor sets it: every
\* value 0.  A usage is "normal" up to 0.8 of its threshold, "elevated" up to
\* the threshold, "exceeded" above it; threats_detected is "high" above 10;
\* constitutional_violations is 0 or 1 (for any number above 0);
\* failed_authentications is "high" above failed_logins_per_minute;
\* avg_response_time is "high" above the response_time threshold; error_rate is
\* "low" up to 1, "raised" up to error_rate_percent, "high" above it
QuietMetrics ==
    [ cpu_usage                 |-> "normal",
      memory_usage              |-> "normal",
      disk_usage                |-> "normal",
      load_average              |-> "normal",
      threats_detected          |-> "low",
      constitutional_violations |-> 0,
      failed_authentications    |-> "low",
      avg_response_time         |-> "low",
      error_rate                |-> "low",
      database_connections      |-> 1 ]

\* no call of checkSystemHealth is in progress
NoHealth == [pc |-> "idle", checks |-> <<>>, healthStatus |-> <<>>]

\* no call of detectAnomalies is in progress
NoScan == [pc |-> "idle", anomalies |-> {}]

\* the jobs of setupScheduledTasks and startIntegrityChecks
ScheduledJobs == {"security_scan", "daily_report", "cleanup", "integrity_check"}

InitProcess ==
    /\ jobRuns = [job \in ScheduledJobs |-> <<>>]
    /\ shutdown = [isShuttingDown |-> FALSE, pc |-> "running"]

\* no snapshot has been stored: the list is absent, no call of storeMetrics
\* is in progress
NoHistory ==
    [list |-> <<>>, pc |-> "idle", sample |-> 0, stored |-> FALSE, pushed |-> 0,
     errors |-> 0]

InitMonitor ==
    /\ metricsHistory = NoHistory
    /\ currentMetrics = [QuietMetrics EXCEPT !.database_connections = 0]
    /\ health = NoHealth
    /\ anomalyScan = NoScan
    /\ monitorStats = [total_health_checks |-> 0, alerts_triggered |-> 0,
                       anomalies_detected |-> 0]

\* a component that takes no step in a specification of another component
AuditIdle == InitAudit /\ cipherOk

AlertIdle == InitAlert /\ mailOk /\ webhookOk

(***************************************************************************)
(* AuditLogger: operations                                                 *)
(***************************************************************************)
\* updateIntegrityChecksum: $set daily_checksum to the digest over the hashes
\* of this batch, $inc log_count, upsert; a store error is caught and logged
updateIntegrityChecksum(logs, today) ==
    LET totalHashes == SeqMap(LAMBDA e : e.hash, logs)
    IN  IF mongoUp /\ Len(totalHashes) > 0
        THEN [auditIntegrity EXCEPT
                 ![today].has_checksum = TRUE,
                 ![today].daily_checksum = <<"sha256", totalHashes>>,
                 ![today].log_count = @ + Len(totalHashes)]
        ELSE auditIntegrity

\* handleConstitutionalViolation: insertOne into constitutional_violations;
\* a store error is caught and logged
handleConstitutionalViolation(auditEntry) ==
    IF mongoUp
    THEN Append(violations, [audit_log_id |-> auditEntry.id,
                             timestamp |-> auditEntry.timestamp,
                             investigation_status |-> "pending"])
    ELSE violations

\* flushLogBuffer up to its first await: the buffer is copied and emptied, and
\* insertMany is called when the connection is ready; otherwise the execution
\* goes on to updateIntegrityChecksum with nothing written
flushLogBuffer(f, buf, owner, ownerViolation) ==
    [flush EXCEPT ![f] =
        [pc |-> IF mongoUp THEN "insertMany" ELSE "checksum",
         logsToFlush |-> buf, owner |-> owner, ownerViolation |-> ownerViolation,
         today |-> DayOf(now)]]

\* logSecurityEvent: build the entry, encrypt, hash, push; at batch_size start
\* a flush and wait for it, otherwise go on to the violation record
RecordEntry(eventType, p) ==
    /\ nextId < MaxEntries
    /\ LET entry == NewEntry(nextId + 1, now, eventType, p, cipherOk)
           buf == Append(logBuffer, entry)
       IN  IF Len(buf) >= BatchSize
           THEN /\ FreeFlush # 0
                /\ flush' = flushLogBuffer(FreeFlush, buf, entry.id, ~entry.compliant)
                /\ logBuffer' = <<>>
                /\ recordOutcome' = [recordOutcome EXCEPT ![entry.id] = "waiting"]
                /\ UNCHANGED violations
           ELSE /\ logBuffer' = buf
                /\ violations' = IF entry.compliant THEN violations
                                 ELSE handleConstitutionalViolation(entry)
                /\ recordOutcome' = [recordOutcome EXCEPT ![entry.id] = "returned"]
                /\ UNCHANGED flush
    /\ nextId' = nextId + 1
    /\ searchResult' = <<>>
    /\ UNCHANGED <<auditStore, auditIntegrity, mongoUp, cipherOk, now,
                   integrityViolations, tampered, lastCheckDay>>

\* a call of logSecurityEvent from outside the orchestrator's event handler
\* (the scheduled scan and report)
logSecurityEvent(eventType, p) ==
    /\ RecordEntry(eventType, p)
    /\ UNCHANGED nonAuditVars

\* the callback of startPeriodicFlush: flushLogBuffer returns at once on an
\* empty buffer; an error of the flush is caught and logged
PeriodicFlush ==
    /\ logBuffer # <<>>
    /\ FreeFlush # 0
    /\ flush' = flushLogBuffer(FreeFlush, logBuffer, 0, FALSE)
    /\ logBuffer' = <<>>
    /\ searchResult' = <<>>
    /\ UNCHANGED <<auditStore, auditIntegrity, mongoUp, cipherOk, now, nextId,
                   integrityViolations, tampered, violations, lastCheckDay,
                   recordOutcome, nonAuditVars>>

\* insertMany resolves: the batch is in the collection; flushLogBuffer goes on
\* to updateIntegrityChecksum
InsertManyOk(f) ==
    /\ flush[f].pc = "insertMany"
    /\ mongoUp
    /\ Insertable(flush[f].logsToFlush, Len(flush[f].logsToFlush))
    /\ auditStore' = auditStore \o SeqMap(toDoc, flush[f].logsToFlush)
    /\ flush' = [flush EXCEPT ![f].pc = "checksum", ![f].today = DayOf(now)]
    /\ searchResult' = <<>>
    /\ UNCHANGED <<logBuffer, auditIntegrity, mongoUp, cipherOk, now, nextId,
                   integrityViolations, tampered, violations, lastCheckDay,
                   recordOutcome, nonAuditVars>>

\* the buffer the catch block of flushLogBuffer leaves
RestoreBuffer(buf, logsToFlush) == buf \o buf

\* insertMany rejects after writing the first k documents (an ordered bulk
\* write stops at the first error): the catch block of flushLogBuffer runs and
\* the error is thrown to the caller
InsertManyFail(f, k) ==
    /\ flush[f].pc = "insertMany"
    /\ k < Len(flush[f].logsToFlush)
    /\ Insertable(flush[f].logsToFlush, k)
    /\ auditStore' = auditStore \o SeqMap(toDoc, SubSeq(flush[f].logsToFlush, 1, k))
    /\ logBuffer' = RestoreBuffer(logBuffer, flush[f].logsToFlush)
    /\ recordOutcome' = IF flush[f].owner = 0 THEN recordOutcome
                        ELSE [recordOutcome EXCEPT ![flush[f].owner] = "thrown"]
    /\ flush' = [flush EXCEPT ![f] = IdleFlush]
    /\ searchResult' = <<>>
    /\ UNCHANGED <<auditIntegrity, mongoUp, cipherOk, now, nextId, integrityViolations,
                   tampered, violations, lastCheckDay, nonAuditVars>>

\* updateIntegrityChecksum returns and flushLogBuffer with it; a record call
\* that waited for the flush goes on to the violation record
FlushReturn(f) ==
    /\ flush[f].pc = "checksum"
    /\ auditIntegrity' = updateIntegrityChecksum(flush[f].logsToFlush, flush[f].today)
    /\ violations' = IF flush[f].ownerViolation
                     THEN handleConstitutionalViolation(
                              CHOOSE e \in Range(flush[f].logsToFlush) :
                                  e.id = flush[f].owner)
                     ELSE violations
    /\ recordOutcome' = IF flush[f].owner = 0 THEN recordOutcome
                        ELSE [recordOutcome EXCEPT ![flush[f].owner] = "returned"]
    /\ flush' = [flush EXCEPT ![f] = IdleFlush]
    /\ searchResult' = <<>>
    /\ UNCHANGED <<logBuffer, auditStore, mongoUp, cipherOk, now, nextId,
                   integrityViolations, tampered, lastCheckDay,
                   nonAuditVars>>

\* the connection to the document store is lost or comes back
MongoToggle ==
    /\ mongoUp' = ~mongoUp
    /\ searchResult' = <<>>
    /\ UNCHANGED <<cipherOk, logBuffer, auditStore, auditIntegrity, flush, now,
                   nextId, integrityViolations, tampered,
                   violations, lastCheckDay,
                   recordOutcome, nonAuditVars>>

\* time passes, to the next instant the model distinguishes
Tick ==
    /\ \E t \in TimePoints :
          /\ Before(now, t)
          /\ \A u \in TimePoints : Before(now, u) => ~Before(u, t)
          /\ now' = t
    /\ searchResult' = <<>>
    /\ UNCHANGED <<logBuffer, auditStore, auditIntegrity, mongoUp, cipherOk, flush,
                   nextId, integrityViolations, tampered, violations, lastCheckDay,
                   recordOutcome, nonAuditVars>>

\* the documents the integrity check reads for a date: timestamp $gte
\* <date>T00:00:00.000Z and $lt <date>T23:59:59.999Z
LogsOfDay(day) ==
    SelectSeq(auditStore, LAMBDA d : /\ ~Before(d.timestamp, DateOf(day, 0))
                                     /\ Before(d.timestamp, DateOf(day, LastTod)))

\* the loop of performDailyIntegrityCheck: a log is valid when the hash
\* recomputed from it is the hash it carries
ValidLogs(logs) == SelectSeq(logs, LAMBDA d : calculateEntryHash(d) = d.hash)

\* the integrity report replaceOne writes: the whole document is replaced
IntegrityReport(logs) ==
    [has_checksum |-> FALSE, daily_checksum |-> <<>>, log_count |-> 0,
     has_report |-> TRUE, total_logs |-> Len(logs),
     valid_logs |-> Len(ValidLogs(logs)),
     invalid_logs |-> Len(logs) - Len(ValidLogs(logs))]

\* performDailyIntegrityCheck, started by dailyCheck in the minute 03:00 of a
\* day, for the day before; a store error is caught and logged
performDailyIntegrityCheck ==
    /\ TodOf(now) = CheckTod
    /\ DayOf(now) >= 1
    /\ lastCheckDay < DayOf(now)
    /\ lastCheckDay' = DayOf(now)
    /\ LET yesterday == DayOf(now) - 1
           report == IntegrityReport(LogsOfDay(yesterday))
       IN  IF mongoUp
           THEN /\ auditIntegrity' = [auditIntegrity EXCEPT ![yesterday] = report]
                /\ integrityViolations' = integrityViolations + report.invalid_logs
           ELSE UNCHANGED <<auditIntegrity, integrityViolations>>
    /\ searchResult' = <<>>
    /\ UNCHANGED <<logBuffer, auditStore, mongoUp, cipherOk, flush, now, nextId,
                   tampered, violations,
                   recordOutcome, nonAuditVars>>

\* sort({timestamp: -1}): newest first
RECURSIVE SortDesc(_)
SortDesc(s) ==
    IF Len(s) <= 1 THEN s
    ELSE LET rest == SortDesc(Tail(s))
             before == SelectSeq(rest, LAMBDA d : ~Before(d.timestamp, Head(s).timestamp))
             after == SelectSeq(rest, LAMBDA d : Before(d.timestamp, Head(s).timestamp))
         IN  before \o <<Head(s)>> \o after

\* what searchLogs returns for one stored log: event_data is replaced by its
\* decrypted form when the log is marked encrypted, every other field is kept
SearchView(log, decOk) ==
    [log EXCEPT !.event_data = IF log.encrypted THEN decryptData(log.event_data, decOk)
                               ELSE log.event_data]

\* a date field of the criteria that is not set
NoDate == <<>>

\* criteria without any field
NoCriteria ==
    [event_type |-> "none", start_date |-> NoDate, end_date |-> NoDate,
     source_ip |-> "none", user_id |-> "none", severity |-> "none"]

\* the criteria searchLogs is called with: none, one field, a time range, one
\* end of a time range, two fields
SearchInputs ==
    {NoCriteria}
    \cup {[NoCriteria EXCEPT !.event_type = "constitutional_violation"]}
    \cup {[NoCriteria EXCEPT !.start_date = DateOf(0, LastTod)]}
    \cup {[NoCriteria EXCEPT !.source_ip = "10.0.0.1"]}
    \cup {[NoCriteria EXCEPT !.user_id = "admin"]}
    \cup {[NoCriteria EXCEPT !.severity = "high",
                             !.start_date = DateOf(0, LastTod),
                             !.end_date = DateOf(MaxDay, CheckTod)]}
    \cup {[NoCriteria EXCEPT !.event_type = "threat_detected",
                             !.start_date = DateOf(0, CheckTod),
                             !.end_date = DateOf(0, LastTod)]}

\* the query searchLogs builds: a field of the criteria that is set must be
\* equal in the document; the timestamp is restricted only when start_date
\* and end_date are both set
MatchesQueryTypeOnly(d, criteria) ==
    criteria.event_type # "none" => d.event_type = criteria.event_type

MatchesQuery(d, criteria) ==
    /\ criteria.event_type # "none" => d.event_type = criteria.event_type
    /\ (criteria.start_date # NoDate /\ criteria.end_date # NoDate)
          => /\ ~Before(d.timestamp, criteria.start_date)
             /\ ~Before(criteria.end_date, d.timestamp)
    /\ criteria.source_ip # "none" => d.metadata.source_ip = criteria.source_ip
    /\ criteria.user_id # "none" => d.metadata.user_id = criteria.user_id
    /\ criteria.severity # "none" => d.severity = criteria.severity

\* number of documents the cursor of searchLogs is limited to
SearchLimit == 1000

\* cursor.limit(n): the first n documents
LimitTo(s, n) == IF Len(s) <= n THEN s ELSE SubSeq(s, 1, n)

\* searchLogs(criteria): find, sort, limit, map
searchLogs(criteria, decOk) ==
    /\ mongoUp
    /\ auditStore # <<>>
    /\ LET found == SelectSeq(auditStore, LAMBDA d : MatchesQuery(d, criteria))
       IN  searchResult' = SeqMap(LAMBDA d : SearchView(d, decOk),
                                  LimitTo(SortDesc(found), SearchLimit))
    /\ UNCHANGED <<logBuffer, auditStore, auditIntegrity, mongoUp, cipherOk, flush,
                   now, nextId, integrityViolations, tampered, violations, lastCheckDay,
                   recordOutcome, nonAuditVars>>

\* the values a third party with write access to the collection can give the
\* canonical fields of a stored document (the timestamp stays within its day)
TamperedDocs(d) ==
    {[d EXCEPT !.id = d.id + 100]}
    \cup {[d EXCEPT !.event_type = t] : t \in EventTypes \ {d.event_type}}
    \cup {[d EXCEPT !.event_data =
               IF d.event_data.encrypted THEN encryptData(Plain("forged"), TRUE)
               ELSE Plain("forged")]}
    \cup {[d EXCEPT !.metadata.source_ip = "10.0.0.1"]}
    \cup {[d EXCEPT !.timestamp = DateOf(DayOf(d.timestamp), t)] :
             t \in TodPoints \ {TodOf(d.timestamp)}}

\* a stored document is modified in the collection; its hash is left as it was
Tamper(i) ==
    /\ i \in 1..Len(auditStore)
    /\ Cardinality(tampered) < MaxTamper
    /\ auditStore[i]._id \notin tampered
    /\ \E d \in TamperedDocs(auditStore[i]) :
          auditStore' = [auditStore EXCEPT ![i] = d]
    /\ tampered' = tampered \cup {auditStore[i]._id}
    /\ searchResult' = <<>>
    /\ UNCHANGED <<logBuffer, auditIntegrity, mongoUp, cipherOk, flush, now,
                   nextId, integrityViolations, violations, lastCheckDay,
                   recordOutcome, nonAuditVars>>

\* the buffer and its flushes, with a document store that fails and recovers
NextAudit ==
    \/ \E in \in RecordInputs : logSecurityEvent(in[1], in[2])
    \/ PeriodicFlush
    \/ \E f \in 1..MaxFlush : InsertManyOk(f)
    \/ \E f \in 1..MaxFlush, k \in 0..MaxEntries : InsertManyFail(f, k)
    \/ \E f \in 1..MaxFlush : FlushReturn(f)
    \/ MongoToggle
    \/ Tick

InitAuditOnly == InitAudit /\ AlertIdle /\ InitPipeline /\ InitScorer /\ InitChecker /\ InitMonitor /\ InitProcess

SpecAudit == InitAuditOnly /\ [][NextAudit]_vars

(***************************************************************************)
(* Retention: the weekly cleanup job                                       *)
(***************************************************************************)
\* the day of the week of a calendar day, 0 for Sunday as in cron (1970-01-01
\* was a Thursday)
WeekdayOf(day) == (day + 4) % 7

\* the instants at which cron '0 3 * * 0' starts the cleanup job
CleanupRuns == {DateOf(d, CleanupTod) : d \in {d \in 0..MaxRetentionDay : WeekdayOf(d) = 0}}

\* time passes, to the next run of the weekly cleanup job
WeeklyTick ==
    /\ \E t \in CleanupRuns :
          /\ Before(now, t)
          /\ \A u \in CleanupRuns : Before(now, u) => ~Before(u, t)
          /\ now' = t
    /\ searchResult' = <<>>
    /\ UNCHANGED <<logBuffer, auditStore, auditIntegrity, mongoUp, cipherOk, flush,
                   nextId, integrityViolations, tampered, violations, lastCheckDay,
                   recordOutcome, nonAuditVars>>

\* the cleanup job: the orchestrator's cleanupOldLogs takes the date 30 days
\* back as cutoffDate and hands it to AuditLogger.cleanupOldLogs, which deletes
\* the audit logs with timestamp $lt cutoffDate and the violation documents
\* older than 90 days. The filter on audit_integrity compares the field date,
\* a 'YYYY-MM-DD' string, with a Date and matches no document. A store error
\* is logged. (The cache keys security:* the job deletes afterwards are none
\* of the keys of this model.)
cleanupOldLogs ==
    /\ now \in CleanupRuns
    /\ LET cutoffDate == DateOf(DayOf(now) - CleanupCutoffDays, TodOf(now))
           violationCutoff == DateOf(DayOf(now) - ViolationRetentionDays, TodOf(now))
       IN  IF mongoUp
           THEN /\ auditStore' = SelectSeq(auditStore,
                                      LAMBDA d : ~Before(d.timestamp, cutoffDate))
                /\ violations' = SelectSeq(violations,
                                      LAMBDA v : ~Before(v.timestamp, violationCutoff))
           ELSE UNCHANGED <<auditStore, violations>>
    /\ searchResult' = <<>>
    /\ UNCHANGED <<logBuffer, auditIntegrity, mongoUp, cipherOk, flush, now, nextId,
                   integrityViolations, tampered, lastCheckDay, recordOutcome,
                   nonAuditVars>>

\* the logger over the weeks, with the cleanup job
NextRetention ==
    \/ \E in \in RecordInputs : logSecurityEvent(in[1], in[2])
    \/ PeriodicFlush
    \/ \E f \in 1..MaxFlush : InsertManyOk(f)
    \/ \E f \in 1..MaxFlush : FlushReturn(f)
    \/ WeeklyTick
    \/ cleanupOldLogs

InitRetention == InitAuditThrough(MaxRetentionDay) /\ AlertIdle /\ InitPipeline /\ InitScorer /\ InitChecker /\ InitMonitor /\ InitProcess

SpecRetention == InitRetention /\ [][NextRetention]_vars

\* C19: a run of the scheduled cleanup job never deletes an ordinary audit
\* entry whose age is less than the retention period log_retention_days:
\* every stored audit log written less than 90 days before the run is still
\* stored after it.
C19_RetentionWindowKept ==
    [][\A i \in 1..Len(auditStore) :
           Before(DateOf(DayOf(now) - LogRetentionDays, TodOf(now)),
                  auditStore[i].timestamp)
               => \E j \in 1..Len(auditStore') : auditStore'[j]._id = auditStore[i]._id]_vars

(***************************************************************************)
(* Properties of the buffer and its flushes                                *)
(***************************************************************************)
\* the ids of the entries of a sequence of entries or documents
Ids(s) == {s[i].id : i \in 1..Len(s)}

\* the entries handed to a flush that has not returned yet
InFlight == UNION {Ids(flush[f].logsToFlush) : f \in 1..MaxFlush}

\* C1: whatever bulk writes fail and whenever the store is unavailable, no
\* recorded audit entry is lost: every entry recorded so far is in the buffer,
\* in the store, or in the batch of a flush that has not returned yet (so the
\* batch of a flush that failed is in the buffer again when the flush returns).
C1_NoEntryLost ==
    \A id \in 1..nextId : id \in Ids(logBuffer) \cup Ids(auditStore) \cup InFlight

\* C2: recovery from a failed flush does not duplicate: no entry occurs more
\* than once in the buffer, and no entry occurs more than once in the store.
C2_NoDuplicate ==
    /\ \A i, j \in 1..Len(logBuffer) : i # j => logBuffer[i].id # logBuffer[j].id
    /\ \A i, j \in 1..Len(auditStore) : i # j => auditStore[i].id # auditStore[j].id


\* the entries the logger holds anywhere: in the buffer, in a flush that is in
\* progress, or as documents of the collection
Recorded ==
    Range(logBuffer)
    \cup UNION {Range(flush[f].logsToFlush) : f \in 1..MaxFlush}
    \cup Range(auditStore)

\* C18: every audit entry recorded with compliant = false has, once its
\* logSecurityEvent call has ended, a violation record that carries its id as
\* audit_log_id with investigation_status 'pending', also when recording it
\* started a batch flush; compliant entries have none.
C18_ViolationFanOut ==
    /\ \A e \in Recorded :
           (~e.compliant /\ recordOutcome[e.id] \in {"returned", "thrown"}) =>
               \E i \in 1..Len(violations) :
                   /\ violations[i].audit_log_id = e.id
                   /\ violations[i].investigation_status = "pending"
    /\ \A e \in Recorded :
           e.compliant => \A i \in 1..Len(violations) : violations[i].audit_log_id # e.id

\* C13: flush is serialized per buffer: at most one execution of
\* flushLogBuffer is in progress at any time, whether it was started by the
\* timer or by the batch-size threshold.
C13_FlushSerialized ==
    Cardinality({f \in 1..MaxFlush : flush[f].pc # "idle"}) <= 1

\* the batch of a flush is in the collection as one insertMany wrote it: all
\* of its entries, next to each other, in the order they were recorded
BulkInserted(logs) ==
    \E k \in 0..(Len(auditStore) - Len(logs)) :
        SubSeq(auditStore, k + 1, k + Len(logs)) = SeqMap(toDoc, logs)

\* C32: a record call that brings the buffer to the batch size starts a flush
\* before it returns (while it waits, a flush holds its entry); every flush
\* that has passed its write step has made one bulk insert of all the entries
\* that were buffered when it started, in the order they were recorded, and
\* has removed them from the buffer; and after a record call that returned
\* without error the buffer holds fewer entries than the batch size.
C32_BatchFlush ==
    /\ [](\A i \in 1..MaxEntries :
            recordOutcome[i] = "waiting" =>
                \E f \in 1..MaxFlush : flush[f].pc # "idle" /\ flush[f].owner = i)
    /\ [](\A f \in 1..MaxFlush :
            flush[f].pc = "checksum" =>
                /\ BulkInserted(flush[f].logsToFlush)
                /\ Ids(flush[f].logsToFlush) \cap Ids(logBuffer) = {})
    /\ [][\A i \in 1..MaxEntries :
            (recordOutcome[i] # "returned" /\ recordOutcome'[i] = "returned")
                => Len(logBuffer') < BatchSize]_vars

\* the stored trail over the days: writing, reading back, modification by a
\* third party and the daily integrity check
NextIntegrity ==
    \/ \E in \in RecordInputs : logSecurityEvent(in[1], in[2])
    \/ PeriodicFlush
    \/ \E f \in 1..MaxFlush : InsertManyOk(f)
    \/ \E f \in 1..MaxFlush : FlushReturn(f)
    \/ Tick
    \/ performDailyIntegrityCheck
    \/ \E criteria \in SearchInputs, ok \in BOOLEAN : searchLogs(criteria, ok)
    \/ \E i \in 1..MaxEntries : Tamper(i)

InitIntegrity == InitAudit /\ AlertIdle /\ InitPipeline /\ InitScorer /\ InitChecker /\ InitMonitor /\ InitProcess

SpecIntegrity == InitIntegrity /\ [][NextIntegrity]_vars

C33_DailyChecksum ==
    /\ [](\A d \in 0..MaxDay :
            auditIntegrity[d].has_checksum =>
                /\ auditIntegrity[d].daily_checksum[1] = "sha256"
                /\ Len(auditIntegrity[d].daily_checksum[2]) = auditIntegrity[d].log_count)
    /\ [][\A d \in 0..MaxDay :
            auditIntegrity[d].has_checksum =>
                /\ auditIntegrity'[d].has_checksum
                /\ (auditIntegrity'[d].log_count = auditIntegrity[d].log_count
                       => auditIntegrity'[d].daily_checksum = auditIntegrity[d].daily_checksum)]_vars

\* the stored document a returned log was read from
StoredOf(v) == CHOOSE d \in Range(auditStore) : d._id = v._id

\* a recorded and flushed entry nobody has modified since
Untouched(d) == d._id \notin tampered

\* C4 (as amended): the digest recomputed over the canonical fields of an
\* unmodified document as it is read from the store equals its stored hash;
\* for a log returned by searchLogs it does so exactly when event_data is
\* returned as it is stored, and not when searchLogs has decrypted it.
C4_RoundTrip ==
    /\ \A i \in 1..Len(auditStore) :
          Untouched(auditStore[i]) =>
              calculateEntryHash(auditStore[i]) = auditStore[i].hash
    /\ \A i \in 1..Len(searchResult) :
          Untouched(searchResult[i]) =>
              (calculateEntryHash(searchResult[i]) = searchResult[i].hash
                  <=> searchResult[i].event_data = StoredOf(searchResult[i]).event_data)

\* C4 (as stated): the digest recomputed over the canonical fields of an
\* entry as retrieval returns it, by the store read or by searchLogs, equals
\* the stored hash.
C4_RoundTripAsStated ==
    /\ \A i \in 1..Len(auditStore) :
          Untouched(auditStore[i]) =>
              calculateEntryHash(auditStore[i]) = auditStore[i].hash
    /\ \A i \in 1..Len(searchResult) :
          Untouched(searchResult[i]) =>
              calculateEntryHash(searchResult[i]) = searchResult[i].hash

\* two entries were flushed and are unmodified, and searchLogs has returned
\* one of them with its payload decrypted
C4_Witness ==
    /\ \E i \in 1..Len(searchResult) :
          /\ Untouched(searchResult[i])
          /\ searchResult[i].event_data # StoredOf(searchResult[i]).event_data
    /\ Len(auditStore) = 2
    /\ \A i \in 1..Len(auditStore) : Untouched(auditStore[i])

\* the stored documents whose timestamp falls on a day
StoredOnDay(day) == SelectSeq(auditStore, LAMBDA d : DayOf(d.timestamp) = day)

\* the stored documents of a day that were modified after they were written
ModifiedOnDay(day) == SelectSeq(StoredOnDay(day), LAMBDA d : ~Untouched(d))

\* C5: when a canonical field of a stored entry was modified and its hash
\* left as it was, the daily integrity check that covers the entry's day
\* counts the entry in invalid_logs and not in valid_logs.
C5_TamperEvidence ==
    [][(lastCheckDay' # lastCheckDay /\ mongoUp) =>
          LET day == lastCheckDay' - 1
          IN  /\ auditIntegrity'[day].has_report
              /\ auditIntegrity'[day].invalid_logs >= Len(ModifiedOnDay(day))
              /\ auditIntegrity'[day].valid_logs
                     <= Len(StoredOnDay(day)) - Len(ModifiedOnDay(day))]_vars

\* C6: for the N flushed and unmodified entries whose timestamps fall on a
\* day, the daily integrity check run for that day reports total_logs = N,
\* valid_logs = N and invalid_logs = 0.
C6_CleanDayReport ==
    [][(lastCheckDay' # lastCheckDay /\ mongoUp /\ tampered = {}) =>
          LET day == lastCheckDay' - 1
          IN  /\ auditIntegrity'[day].has_report
              /\ auditIntegrity'[day].total_logs = Len(StoredOnDay(day))
              /\ auditIntegrity'[day].valid_logs = Len(StoredOnDay(day))
              /\ auditIntegrity'[day].invalid_logs = 0]_vars

\* C7: whenever a daily integrity check has found invalid_logs > 0, an alert
\* for it has been handed to the Alert Dispatcher.
C7_IntegrityFailureEscalated ==
    \A day \in DOMAIN auditIntegrity :
        (auditIntegrity[day].has_report /\ auditIntegrity[day].invalid_logs > 0)
            => \E i \in 1..Len(calls) : calls[i].outcome = "dispatched"


(***************************************************************************)
(* AlertManager: operations.  A call is a record of calls; pc is the await *)
(* it is suspended at: "check" (redis.exists in isInCooldown), "exec"      *)
(* (Promise.allSettled in executeAlert), "set" (redis.setEx in             *)
(* setCooldown), or "done".                                                *)
(***************************************************************************)
\* isCriticalViolation: only sendComplianceAlert computes it
IsCriticalViolation(c) == c.type = "compliance" /\ c.critical

\* a cooldown lookup made by every send, critical or not
LooksUpCooldownAlways(c) == TRUE

\* the cooldown lookup a send function makes before it dispatches: threat and
\* system alerts always look up, a compliance alert unless it is critical
LooksUpCooldown(c) == ~IsCriticalViolation(c)

\* a marker set after every executeAlert, critical or not
SetsCooldownAlways(c) == TRUE

\* the marker a send function sets after executeAlert: threat and system
\* alerts always, a compliance alert unless it is critical
SetsCooldown(c) == ~IsCriticalViolation(c)

\* the state of a send call at its start; after is the number of calls that
\* had returned when it was made, expiry the end of the window of its marker,
\* attempted and failed the channels executeAlert tried and logged as failed
NewCall(in) ==
    [type |-> in.type, arg |-> in.arg, critical |-> in.critical,
     pc |-> IF LooksUpCooldown(in) THEN "check" ELSE "exec",
     outcome |-> IF LooksUpCooldown(in) THEN "pending" ELSE "dispatched",
     expiry |-> 0, attempted |-> {}, failed |-> {},
     after |-> Cardinality({i \in 1..Len(calls) : calls[i].pc = "done"})]

\* the cooldown key of a call
KeyOf(c) == CooldownKey(c.type, c.arg)

\* sendThreatAlert, sendComplianceAlert, sendSystemAlert up to the first await
StartAlert(in) ==
    /\ Len(calls) < MaxAlertCalls
    /\ calls' = Append(calls, NewCall(in))
    /\ UNCHANGED <<cooldown, redisUp, mailOk, webhookOk, alertNow, alertStats>>

\* a call of a send function from outside the orchestrator's event handler
SendAlert(in) ==
    /\ StartAlert(in)
    /\ UNCHANGED nonAlertVars

\* isInCooldown returns: exists === 1, or false when redis throws; in cooldown
\* the send function returns, otherwise it builds the alert and calls
\* executeAlert, which starts the delivery on every channel
IsInCooldownReturn(i) ==
    /\ i \in 1..Len(calls)
    /\ calls[i].pc = "check"
    /\ LET inCooldown == redisUp /\ KeyExists(KeyOf(calls[i]))
       IN  calls' = [calls EXCEPT
                        ![i].pc = IF inCooldown THEN "done" ELSE "exec",
                        ![i].outcome = IF inCooldown THEN "suppressed" ELSE "dispatched"]
    /\ UNCHANGED <<cooldown, redisUp, mailOk, webhookOk, alertNow, alertStats,
                   nonAlertVars>>

\* whether the delivery on a channel resolves: sendEmailAlert and
\* sendWebhookAlert reject when the transport does, sendAuditAlert when redis
\* does, sendLogAlert never
ChannelOk(channel) ==
    CASE channel = "email" -> mailOk
      [] channel = "webhook" -> webhookOk
      [] channel = "audit" -> redisUp
      [] OTHER -> TRUE

\* deliveries awaited one after the other: the first rejection is raised and
\* the channels after it are not tried
FailFast(channels) ==
    LET bad == {n \in 1..Len(channels) : ~ChannelOk(channels[n])}
        stop == IF bad = {} THEN Len(channels)
                ELSE CHOOSE n \in bad : \A m \in bad : n <= m
    IN  [attempted |-> {channels[n] : n \in 1..stop},
         failed |-> {channels[n] : n \in bad \cap 1..stop},
         raised |-> bad # {}]

\* executeAlert: a delivery is started on every channel of the alert type,
\* Promise.allSettled waits for all of them, every rejected one is logged
\* with a warning and nothing is raised
AllSettled(channels) ==
    [attempted |-> Range(channels),
     failed |-> {c \in Range(channels) : ~ChannelOk(c)},
     raised |-> FALSE]

\* Promise.allSettled resolves: every channel was attempted, the failed ones
\* are logged; the send function goes on to setCooldown, or, for a critical
\* compliance alert, counts the alert and returns
ExecuteAlertReturn(i) ==
    /\ i \in 1..Len(calls)
    /\ calls[i].pc = "exec"
    /\ LET settled == AllSettled(ChannelsOf(calls[i].type))
           sent(channel) == IF channel \in settled.attempted \ settled.failed
                            THEN 1 ELSE 0
       IN  /\ calls' = [calls EXCEPT
                  ![i].pc = IF settled.raised THEN "done"
                            ELSE IF SetsCooldown(calls[i]) THEN "set" ELSE "done",
                  ![i].outcome = IF settled.raised THEN "thrown" ELSE @,
                  ![i].attempted = settled.attempted,
                  ![i].failed = settled.failed]
           /\ alertStats' = [alertStats EXCEPT
                  !.emails_sent = @ + sent("email"),
                  !.webhooks_sent = @ + sent("webhook"),
                  !.audit_records = @ + sent("audit"),
                  !.failed_deliveries = @ + (IF settled.raised THEN 1 ELSE 0),
                  !.alerts_sent = @ + (IF settled.raised \/ SetsCooldown(calls[i])
                                       THEN 0 ELSE 1)]
    /\ UNCHANGED <<cooldown, redisUp, mailOk, webhookOk, alertNow, nonAlertVars>>

\* setCooldown returns: setEx(key, cooldown, '1'), or a warning when redis
\* throws; the send function counts the alert and returns
SetCooldownReturn(i) ==
    /\ i \in 1..Len(calls)
    /\ calls[i].pc = "set"
    /\ cooldown' = IF redisUp
                   THEN [cooldown EXCEPT ![KeyOf(calls[i])] = alertNow + CooldownOf(calls[i].type)]
                   ELSE cooldown
    /\ calls' = [calls EXCEPT
                    ![i].pc = "done",
                    ![i].expiry = IF redisUp THEN alertNow + CooldownOf(calls[i].type)
                                  ELSE 0]
    /\ alertStats' = [alertStats EXCEPT !.alerts_sent = @ + 1]
    /\ UNCHANGED <<redisUp, mailOk, webhookOk, alertNow, nonAlertVars>>

\* the connection to redis is lost or comes back
RedisToggle ==
    /\ redisUp' = ~redisUp
    /\ UNCHANGED <<cooldown, mailOk, webhookOk, alertNow, calls, alertStats,
                   nonAlertVars>>

\* time passes in the cache; a key whose TTL has run out no longer exists
AlertTick ==
    /\ alertNow + TickSeconds <= MaxAlertClock
    /\ alertNow' = alertNow + TickSeconds
    /\ UNCHANGED <<cooldown, redisUp, mailOk, webhookOk, calls, alertStats,
                   nonAlertVars>>

NextAlert ==
    \/ \E in \in AlertInputs : SendAlert(in)
    \/ \E i \in 1..MaxAlertCalls : IsInCooldownReturn(i)
    \/ \E i \in 1..MaxAlertCalls : ExecuteAlertReturn(i)
    \/ \E i \in 1..MaxAlertCalls : SetCooldownReturn(i)
    \/ RedisToggle
    \/ AlertTick

InitAlertOnly == InitAlert /\ AuditIdle /\ InitPipeline /\ InitScorer /\ InitChecker /\ InitMonitor /\ InitProcess

SpecAlert == InitAlertOnly /\ [][NextAlert]_vars

(***************************************************************************)
(* Properties of the cooldown                                              *)
(***************************************************************************)
\* call i was dispatched and has returned, with the same cooldown key as call
\* j, and the window of the marker it set is still open
PriorDispatch(i, j) ==
    /\ i # j
    /\ KeyOf(calls[i]) = KeyOf(calls[j])
    /\ calls[i].pc = "done"
    /\ calls[i].outcome = "dispatched"
    /\ calls[i].expiry > alertNow

C9_CriticalBypass ==
    \A i \in 1..Len(calls) :
        IsCriticalViolation(calls[i]) =>
            /\ calls[i].outcome = "dispatched"
            /\ calls[i].pc \in {"exec", "done"}

\* two critical compliance alerts, one after the other, were both dispatched
\* inside the window of the marker a non-critical compliance alert had set
C9_Witness ==
    /\ Len(calls) = 3
    /\ \A i \in 1..3 : calls[i].type = "compliance" /\ calls[i].pc = "done"
    /\ ~calls[1].critical /\ calls[1].outcome = "dispatched"
    /\ calls[1].expiry > alertNow
    /\ redisUp /\ KeyExists(KeyOf(calls[1]))
    /\ \A i \in 2..3 : /\ calls[i].critical
                        /\ calls[i].outcome = "dispatched"
                        /\ calls[i].after = i - 1

\* C38: dispatching a critical compliance alert leaves the cooldown state
\* unchanged: no step of a critical compliance alert, from its call to its
\* return, creates or refreshes a marker (an existing marker keeps its
\* expiry), and a non-critical compliance alert that follows a critical one
\* and finds no marker is dispatched.
C38_CriticalLeavesCooldown ==
    [][/\ (\E i \in 1..Len(calls') :
              /\ IsCriticalViolation(calls'[i])
              /\ (i > Len(calls) \/ calls'[i] # calls[i]))
           => cooldown' = cooldown
       /\ \A j \in 1..Len(calls) :
              (/\ calls[j].type = "compliance" /\ ~calls[j].critical
               /\ calls[j].pc = "check" /\ calls'[j].pc # "check"
               /\ ~KeyExists(KeyOf(calls[j]))
               /\ \E i \in 1..Len(calls) :
                      IsCriticalViolation(calls[i]) /\ calls[i].pc = "done")
              => calls'[j].outcome = "dispatched"]_vars

\* a critical compliance alert was dispatched inside the window of the marker
\* of a non-critical one, and the marker has the expiry the non-critical one
\* gave it; a non-critical alert after the critical one was suppressed by it
C38_Witness ==
    /\ Len(calls) = 3
    /\ \A i \in 1..3 : calls[i].type = "compliance" /\ calls[i].pc = "done"
                        /\ calls[i].after = i - 1
    /\ ~calls[1].critical /\ calls[1].outcome = "dispatched"
    /\ calls[2].critical /\ calls[2].outcome = "dispatched"
    /\ ~calls[3].critical /\ calls[3].outcome = "suppressed"
    /\ cooldown[KeyOf(calls[1])] = calls[1].expiry
    /\ calls[1].expiry > alertNow

C12_ChannelIsolation ==
    [][\A i \in 1..Len(calls) :
          (calls[i].pc = "exec" /\ calls'[i].pc # "exec") =>
              LET channels == Range(ChannelsOf(calls[i].type))
              IN  /\ calls'[i].attempted = channels
                  /\ calls'[i].failed = {c \in channels : ~ChannelOk(c)}
                  /\ calls'[i].outcome = "dispatched"
                  /\ alertStats'.failed_deliveries = alertStats.failed_deliveries
                  /\ alertStats'.emails_sent = alertStats.emails_sent
                         + (IF "email" \in channels /\ mailOk THEN 1 ELSE 0)
                  /\ alertStats'.webhooks_sent = alertStats.webhooks_sent
                         + (IF "webhook" \in channels /\ webhookOk THEN 1 ELSE 0)]_vars

\* a compliance alert was dispatched with mail down and the webhook up: the
\* mail channel alone is logged as failed, the webhook, the log and the audit
\* record were delivered
C12_Witness ==
    \E i \in 1..Len(calls) :
        /\ calls[i].type = "compliance" /\ calls[i].pc = "done"
        /\ calls[i].outcome = "dispatched"
        /\ calls[i].attempted = {"email", "webhook", "log", "audit"}
        /\ calls[i].failed = {"email"}
        /\ alertStats.webhooks_sent >= 1 /\ alertStats.audit_records >= 1
        /\ alertStats.emails_sent = 0

\* C10: the cooldown check and the setting of the marker act as one atomic
\* check-and-set: of two triggers of the same (type, identifier) that are in
\* progress at the same time while no marker was ever set, at most one gets
\* past the check and dispatches.
C10_AtomicCheckAndSet ==
    \A i, j \in 1..Len(calls) :
        (/\ i < j
         /\ KeyOf(calls[i]) = KeyOf(calls[j])
         /\ LooksUpCooldown(calls[i]) /\ LooksUpCooldown(calls[j])
         /\ cooldown[KeyOf(calls[i])] = 0
         /\ calls[i].pc \in {"exec", "set"} /\ calls[j].pc \in {"exec", "set"})
            => ~(calls[i].outcome = "dispatched" /\ calls[j].outcome = "dispatched")


(***************************************************************************)
(* ShinAISecurityMonitoringSystem: the event handler                       *)
(***************************************************************************)
\* request bodies of POST /security/event, by what validateSecurityEvent
\* looks at: the required fields, source.ip and the timestamp
EventInputs ==
    {[fields |-> TRUE, ip |-> "none", timestamp |-> "iso"],
     [fields |-> TRUE, ip |-> "10.0.0.1", timestamp |-> "iso"],
     [fields |-> TRUE, ip |-> "10.0.0.2", timestamp |-> "iso"],
     [fields |-> TRUE, ip |-> "invalid", timestamp |-> "iso"],
     [fields |-> FALSE, ip |-> "none", timestamp |-> "iso"],
     [fields |-> TRUE, ip |-> "10.0.0.1", timestamp |-> "bad"]}

\* validation that looks at the required fields only
validateFieldsOnly(eventData) == eventData.fields

\* validateSecurityEvent: every required field is there, source.ip is absent
\* or an IP address, the timestamp is ISO 8601
validateSecurityEvent(eventData) ==
    /\ eventData.fields
    /\ eventData.ip # "invalid"
    /\ eventData.timestamp = "iso"

\* the argument analyzeThreat's result gives sendThreatAlert for the cooldown
\* identifier: its metadata has no source_ip
ThreatAlertInput == [type |-> "threat", arg |-> "undefined", critical |-> FALSE]

ComplianceAlertInput(critical) ==
    [type |-> "compliance", arg |-> "undefined", critical |-> critical]

\* the payload the handler records with an event type
PayloadOf(eventType) == CHOOSE p \in Payloads : <<eventType, p>> \in RecordInputs

\* processSecurityEvent up to its first await: the event is counted; an
\* invalid one is logged with a warning and the handler returns, so the
\* endpoint answers success; a valid one goes to analyzeThreat
ReceiveEvent(eventData) ==
    /\ Len(events) < MaxEvents
    /\ events' = Append(events,
          [input |-> eventData,
           valid |-> validateSecurityEvent(eventData), ip |-> eventData.ip,
           pc |-> IF validateSecurityEvent(eventData) THEN "analyze" ELSE "done",
           response |-> IF validateSecurityEvent(eventData) THEN "pending" ELSE "success",
           isThreat |-> FALSE, compliant |-> TRUE, threw |-> "none",
           counted |-> FALSE,
           alertCall |-> 0, alerts |-> {}, recordId |-> 0, records |-> {}])
    /\ pipeStats' = [pipeStats EXCEPT !.processed_events = @ + 1]
    /\ UNCHANGED <<auditVars, alertVars, securityMetrics, scorerVars, checkerVars, monitorVars, processVars>>

\* what analyzeThreat does with an event: it returns a result that is a
\* threat or is none, or it throws (its catch block logs and rethrows)
ThreatResults == {"threat", "clean", "throws"}

\* the handler calls the Alert Dispatcher for every event, threat or not
ThreatBranchAlways(result) == TRUE

\* if (threatResult.isThreat)
ThreatBranch(result) == result = "threat"

\* the error of an awaited call reaches the catch block of
\* processSecurityEvent, which logs and rethrows it: the endpoint answers 500
Rethrown(e, step) ==
    [events EXCEPT ![e].pc = "done", ![e].response = "error", ![e].threw = step]

\* analyzeThreat returns or throws: a threat is counted and sendThreatAlert is
\* called, otherwise the handler goes on to checkEventCompliance
AnalyzeThreatReturn(e, result) ==
    /\ e \in 1..Len(events)
    /\ events[e].pc = "analyze"
    /\ IF result = "throws"
       THEN /\ events' = Rethrown(e, "threat")
            /\ UNCHANGED <<alertVars, pipeStats>>
       ELSE IF ThreatBranch(result)
       THEN /\ StartAlert(ThreatAlertInput)
            /\ events' = [events EXCEPT ![e].pc = "threatAlert",
                                        ![e].isThreat = (result = "threat"),
                                        ![e].alertCall = Len(calls) + 1,
                                        ![e].alerts = @ \cup {Len(calls) + 1}]
            /\ pipeStats' = [pipeStats EXCEPT !.threats_detected = @ + 1]
       ELSE /\ events' = [events EXCEPT ![e].pc = "compliance"]
            /\ UNCHANGED <<alertVars, pipeStats>>
    /\ UNCHANGED <<auditVars, securityMetrics, scorerVars, checkerVars, monitorVars, processVars>>

\* sendThreatAlert returns: the alert is counted and logSecurityEvent is
\* called with 'threat_detected'
ThreatAlertReturn(e) ==
    /\ e \in 1..Len(events)
    /\ events[e].pc = "threatAlert"
    /\ calls[events[e].alertCall].pc = "done"
    /\ RecordEntry("threat_detected", PayloadOf("threat_detected"))
    /\ events' = [events EXCEPT ![e].pc = "threatLog", ![e].recordId = nextId + 1,
                                ![e].records = @ \cup {nextId + 1}]
    /\ pipeStats' = [pipeStats EXCEPT !.alerts_sent = @ + 1]
    /\ UNCHANGED <<alertVars, securityMetrics, scorerVars, checkerVars, monitorVars, processVars>>

\* logSecurityEvent returns or throws; an error is logged and rethrown, and
\* the endpoint answers 500
LogReturn(e, pcLog, pcNext) ==
    /\ e \in 1..Len(events)
    /\ events[e].pc = pcLog
    /\ recordOutcome[events[e].recordId] \in {"returned", "thrown"}
    /\ events' = IF recordOutcome[events[e].recordId] = "returned"
                 THEN [events EXCEPT ![e].pc = pcNext]
                 ELSE Rethrown(e, "audit")
    /\ UNCHANGED <<auditVars, alertVars, pipeStats, securityMetrics, scorerVars, checkerVars, monitorVars, processVars>>

ThreatLogReturn(e) == LogReturn(e, "threatLog", "compliance")

\* checkEventCompliance returns or throws: a violation is counted and
\* sendComplianceAlert is called, otherwise the handler goes on to
\* updateSecurityMetrics
ComplianceReturn(e, result) ==
    /\ e \in 1..Len(events)
    /\ events[e].pc = "compliance"
    /\ CASE result = "throws" ->
              /\ events' = Rethrown(e, "compliance")
              /\ UNCHANGED <<alertVars, pipeStats>>
         [] result = "compliant" ->
              /\ events' = [events EXCEPT ![e].pc = "metrics"]
              /\ UNCHANGED <<alertVars, pipeStats>>
         [] OTHER ->
              /\ StartAlert(ComplianceAlertInput(result = "critical"))
              /\ events' = [events EXCEPT ![e].pc = "complianceAlert",
                                          ![e].compliant = FALSE,
                                          ![e].alertCall = Len(calls) + 1,
                                          ![e].alerts = @ \cup {Len(calls) + 1}]
              /\ pipeStats' = [pipeStats EXCEPT !.constitutional_violations = @ + 1]
    /\ UNCHANGED <<auditVars, securityMetrics, scorerVars, checkerVars, monitorVars, processVars>>

ComplianceResults == {"compliant", "violation", "critical", "throws"}

\* sendComplianceAlert returns: logSecurityEvent is called with
\* 'constitutional_violation'
ComplianceAlertReturn(e) ==
    /\ e \in 1..Len(events)
    /\ events[e].pc = "complianceAlert"
    /\ calls[events[e].alertCall].pc = "done"
    /\ RecordEntry("constitutional_violation", PayloadOf("constitutional_violation"))
    /\ events' = [events EXCEPT ![e].pc = "violationLog", ![e].recordId = nextId + 1,
                                ![e].records = @ \cup {nextId + 1}]
    /\ UNCHANGED <<alertVars, pipeStats, securityMetrics, scorerVars, checkerVars, monitorVars, processVars>>

ViolationLogReturn(e) == LogReturn(e, "violationLog", "metrics")

\* updateSecurityMetrics returns: the counters are incremented in redis, or
\* the redis error is caught and logged; the handler returns and the endpoint
\* answers success
MetricsReturn(e) ==
    /\ e \in 1..Len(events)
    /\ events[e].pc = "metrics"
    /\ events' = [events EXCEPT ![e].pc = "done", ![e].response = "success",
                                ![e].counted = redisUp]
    /\ securityMetrics' = securityMetrics + (IF redisUp THEN 1 ELSE 0)
    /\ UNCHANGED <<auditVars, alertVars, pipeStats, scorerVars, checkerVars, monitorVars, processVars>>

NextPipeline ==
    \/ \E eventData \in EventInputs : ReceiveEvent(eventData)
    \/ \E e \in 1..MaxEvents, result \in ThreatResults : AnalyzeThreatReturn(e, result)
    \/ \E e \in 1..MaxEvents : ThreatAlertReturn(e)
    \/ \E e \in 1..MaxEvents : ThreatLogReturn(e)
    \/ \E e \in 1..MaxEvents, result \in ComplianceResults : ComplianceReturn(e, result)
    \/ \E e \in 1..MaxEvents : ComplianceAlertReturn(e)
    \/ \E e \in 1..MaxEvents : ViolationLogReturn(e)
    \/ \E e \in 1..MaxEvents : MetricsReturn(e)
    \/ \E i \in 1..MaxAlertCalls : IsInCooldownReturn(i)
    \/ \E i \in 1..MaxAlertCalls : ExecuteAlertReturn(i)
    \/ \E i \in 1..MaxAlertCalls : SetCooldownReturn(i)
    \/ \E f \in 1..MaxFlush : InsertManyOk(f)
    \/ \E f \in 1..MaxFlush, k \in 0..MaxEntries : InsertManyFail(f, k)
    \/ \E f \in 1..MaxFlush : FlushReturn(f)

InitSystem == AuditIdle /\ AlertIdle /\ InitPipeline /\ InitScorer /\ InitChecker /\ InitMonitor /\ InitProcess

SpecPipeline == InitSystem /\ [][NextPipeline]_vars

\* C11: cooldown state is kept per source IP: a threat alert for an event is
\* suppressed only when another threat event from the same source IP put that
\* IP's key into cooling-down; a threat from a different source IP is still
\* dispatched.
C11_PerSourceCooldown ==
    \A e \in 1..Len(events) :
        (\E c \in events[e].alerts :
             calls[c].type = "threat" /\ calls[c].outcome = "suppressed")
            => \E e2 \in 1..Len(events) :
                   e2 # e /\ events[e2].isThreat /\ events[e2].ip = events[e].ip

\* C37: the orchestrator's alerts_sent counts only alerts that were dispatched:
\* it is not raised for a threat alert the dispatcher suppressed because of
\* cooldown, so it never exceeds the dispatcher's own count of sent alerts.
C37_AlertsSentDispatched ==
    pipeStats.alerts_sent <= alertStats.alerts_sent

\* C14: the endpoint answers with success for every event that passed
\* validation, whatever happens downstream (alert delivery, audit write or
\* flush, scorer).
C14_AcceptedEventSucceeds ==
    \A e \in 1..Len(events) :
        (events[e].valid /\ events[e].pc = "done") => events[e].response = "success"

\* C15: when the Threat Scorer or the Compliance Scorer throws, the exception
\* is caught: no error reaches the caller of processSecurityEvent and the
\* remaining steps run, so the event is counted by the health monitor.
C15_ScorerErrorContained ==
    \A e \in 1..Len(events) :
        events[e].threw \in {"threat", "compliance"} =>
            /\ events[e].response # "error"
            /\ events[e].pc = "done" => events[e].counted

\* an event validation has to reject: a required field is missing, source.ip
\* is present but no IP address, or the timestamp is not ISO 8601
Malformed(eventData) ==
    \/ ~eventData.fields
    \/ eventData.ip = "invalid"
    \/ eventData.timestamp # "iso"

C17_AlertOnlyOnThreatOrViolation ==
    /\ \A e \in 1..Len(events) :
           \A c \in events[e].alerts :
               /\ calls[c].type = "threat" => events[e].isThreat
               /\ calls[c].type = "compliance" => ~events[e].compliant
               /\ calls[c].type \in {"threat", "compliance"}
    /\ \A c \in 1..Len(calls) : \E e \in 1..Len(events) : c \in events[e].alerts

\* one accepted event was neither a threat nor a violation and was answered
\* without any alert, another was both and has a threat and a compliance alert
C17_Witness ==
    /\ Len(events) = 2
    /\ \A e \in 1..2 : events[e].valid /\ events[e].response = "success"
    /\ ~events[1].isThreat /\ events[1].compliant /\ events[1].alerts = {}
    /\ events[2].isThreat /\ ~events[2].compliant
    /\ {calls[c].type : c \in events[2].alerts} = {"threat", "compliance"}

\* C3: every event that has passed validation and whose handler has returned
\* normally has had an audit entry recorded for it by a call of
\* logSecurityEvent, also when it was no threat and was compliant.
C3_EveryValidEventLogged ==
    \A e \in 1..Len(events) :
        (events[e].valid /\ events[e].pc = "done" /\ events[e].response = "success")
            => events[e].records # {}



(***************************************************************************)
(* ThreatDetector: analyzeThreat.  The call in progress is at one of its   *)
(* awaits: "ip", "pattern", "anomaly", "geo", "ua", "compliance" (the six  *)
(* analyzers, in the order they are called), then "score"                  *)
(* (calculateThreatScore), then "done".                                    *)
(***************************************************************************)
\* the conditions the analyzers test besides the patterns, by the tag they
\* push ("policy_violation" is the violations list of
\* analyzeConstitutionalCompliance being non-empty)
Checks ==
    {"blacklisted_ip", "rate_limit_exceeded", "suspicious_timing", "ddos_attempt",
     "admin_access_attempt", "oversized_payload", "high_risk_country",
     "vpn_tor_usage", "outdated_browser", "suspicious_bot", "user_agent_spoofing",
     "policy_violation"}

\* what can be found for an event: a check that holds, or a regular
\* expression of a category that matches the JSON text of eventData.data
Findings ==
    {<<"check", c>> : c \in Checks} \cup {<<"pattern", p[1], p[2]>> : p \in Patterns}

\* a text that holds '..' with two slashes behind it holds '..' with one
Consistent(found) ==
    <<"pattern", "directory_traversal", 2>> \in found
        => <<"pattern", "directory_traversal", 1>> \in found

\* the sets of at most n findings
RECURSIVE FindingSets(_)
FindingSets(n) ==
    IF n = 0 THEN {{}}
    ELSE LET smaller == FindingSets(n - 1)
         IN  smaller \cup {f \cup {x} : f \in smaller, x \in Findings}

\* the events analysed, by what is found for them
AnalysisInputs == {found \in FindingSets(MaxFindings) : Consistent(found)}

\* getSeverityLevel
getSeverityLevel(severity) ==
    CASE severity = "low" -> 1
      [] severity = "medium" -> 2
      [] severity = "high" -> 3
      [] severity = "critical" -> 4
      [] OTHER -> 1

\* severityMap[threatType] || 'medium'
severityMap(threatType) ==
    CASE threatType \in {"sql_injection", "command_injection"} -> "critical"
      [] threatType \in {"xss_attack", "constitutional_violation",
                         "directory_traversal"} -> "high"
      [] threatType = "csrf_attempt" -> "medium"
      [] OTHER -> "medium"

\* analysisResult as analyzeThreat creates it (confidence in tenths)
InitialResult ==
    [isThreat |-> FALSE, threatTypes |-> <<>>, severity |-> "low", confidence |-> 0,
     constitutional_compliant |-> TRUE]

\* a tag is pushed and the confidence raised, nothing else
Tagged(result, tag, tenths) ==
    [result EXCEPT !.threatTypes = Append(@, tag), !.confidence = @ + tenths]

\* a tag is pushed, the event is marked a threat and its severity is assigned
Flagged(result, tag, severity, tenths) ==
    [Tagged(result, tag, tenths) EXCEPT !.isThreat = TRUE, !.severity = severity]

\* a tag is pushed, the event is marked a threat and its severity is raised
\* when the category's is higher
FlaggedAtLeast(result, tag, severity, tenths) ==
    [Tagged(result, tag, tenths) EXCEPT
        !.isThreat = TRUE,
        !.severity = IF getSeverityLevel(severity) > getSeverityLevel(result.severity)
                     THEN severity ELSE result.severity]

\* analyzeIPThreat: blacklist, request rate, night-time access
analyzeIPThreat(found, result) ==
    LET r1 == IF <<"check", "blacklisted_ip">> \in found
              THEN Flagged(result, "blacklisted_ip", "high", 9) ELSE result
        r2 == IF <<"check", "rate_limit_exceeded">> \in found
              THEN Flagged(r1, "rate_limit_exceeded", "medium", 7) ELSE r1
    IN  IF <<"check", "suspicious_timing">> \in found
        THEN Tagged(r2, "suspicious_timing", 3) ELSE r2

\* pattern.test(requestString): an expression without the flag g searches the
\* whole text; one with the flag g searches from its lastIndex on, leaves
\* lastIndex behind the match it finds and sets it to 0 when it finds none
RegExpTest(p, found, li) ==
    IF p \in GlobalPatterns
    THEN LET matched == <<"pattern", p[1], p[2]>> \in found /\ li[p] = 0
         IN  [matched |-> matched, lastIndex |-> [li EXCEPT ![p] = IF matched THEN 1 ELSE 0]]
    ELSE [matched |-> <<"pattern", p[1], p[2]>> \in found, lastIndex |-> li]

\* a match call that leaves lastIndex where the test before it has put it
StringMatchKeepsIndex(p, li) == li

\* requestString.match(pattern): with the flag g every match is collected
\* from the start of the text, and lastIndex is 0 when the search ends
StringMatch(p, li) ==
    IF p \in GlobalPatterns THEN [li EXCEPT ![p] = 0] ELSE li

\* analyzePatternThreat: the two loops, from the k-th expression of the i-th
\* category on; li is the lastIndex of the expressions with the flag g
RECURSIVE PatternsFrom(_, _, _, _, _)
PatternsFrom(i, k, found, result, li) ==
    IF i > Len(PatternOrder) THEN [result |-> result, lastIndex |-> li]
    ELSE IF k > PatternCount(PatternOrder[i]) THEN PatternsFrom(i + 1, 1, found, result, li)
    ELSE LET threatType == PatternOrder[i]
             test == RegExpTest(<<threatType, k>>, found, li)
             r == FlaggedAtLeast(result, threatType, severityMap(threatType), 8)
         IN  IF test.matched
             THEN PatternsFrom(i, k + 1, found,
                               IF threatType = "constitutional_violation"
                               THEN [r EXCEPT !.constitutional_compliant = FALSE]
                               ELSE r,
                               StringMatch(<<threatType, k>>, test.lastIndex))
             ELSE PatternsFrom(i, k + 1, found, result, test.lastIndex)

analyzePatternThreat(found, result, li) == PatternsFrom(1, 1, found, result, li)

\* analyzeAnomalousActivity: request burst, admin endpoint, payload size
analyzeAnomalousActivity(found, result) ==
    LET r1 == IF <<"check", "ddos_attempt">> \in found
              THEN Flagged(result, "ddos_attempt", "high", 8) ELSE result
        r2 == IF <<"check", "admin_access_attempt">> \in found
              THEN Tagged(r1, "admin_access_attempt", 5) ELSE r1
    IN  IF <<"check", "oversized_payload">> \in found
        THEN Tagged(r2, "oversized_payload", 4) ELSE r2

\* analyzeGeolocation: high-risk country, VPN or Tor
analyzeGeolocation(found, result) ==
    LET r1 == IF <<"check", "high_risk_country">> \in found
              THEN Tagged(result, "high_risk_country", 3) ELSE result
    IN  IF <<"check", "vpn_tor_usage">> \in found
        THEN Tagged(r1, "vpn_tor_usage", 2) ELSE r1

\* analyzeUserAgent: outdated browser, bot, spoofed user agent
analyzeUserAgent(found, result) ==
    LET r1 == IF <<"check", "outdated_browser">> \in found
              THEN Tagged(result, "outdated_browser", 2) ELSE result
        r2 == IF <<"check", "suspicious_bot">> \in found
              THEN Tagged(r1, "suspicious_bot", 6) ELSE r1
    IN  IF <<"check", "user_agent_spoofing">> \in found
        THEN Tagged(r2, "user_agent_spoofing", 5) ELSE r2

\* a policy check that tags the violation and leaves the verdict alone
analyzeConstitutionalComplianceTagOnly(found, result) ==
    IF <<"check", "policy_violation">> \in found
    THEN Tagged(result, "constitutional_violation", 9)
    ELSE result

\* analyzeConstitutionalCompliance: one of the four violation patterns matches
analyzeConstitutionalCompliance(found, result) ==
    IF <<"check", "policy_violation">> \in found
    THEN [Flagged(result, "constitutional_violation", "high", 9)
             EXCEPT !.constitutional_compliant = FALSE]
    ELSE result

\* calculateThreatScore: the confidence is capped at 1.0 and compared with the
\* threshold of the severity; a violation always is a threat
calculateThreatScore(result) ==
    LET confidence == IF result.confidence < 10 THEN result.confidence ELSE 10
        byThreshold ==
            IF result.severity = "critical" /\ confidence >= 9 THEN TRUE
            ELSE IF result.severity = "high" /\ confidence >= 7 THEN TRUE
            ELSE IF result.severity = "medium" /\ confidence >= 5 THEN TRUE
            ELSE confidence >= 3 /\ Len(result.threatTypes) > 2
    IN  [result EXCEPT
            !.confidence = confidence,
            !.isThreat = @ \/ byThreshold \/ ~result.constitutional_compliant]

\* analyzeThreat is called for an event: analysisResult is created
analyzeThreat(found) ==
    /\ analysis.pc = "idle"
    /\ threatStats.threats_analyzed < MaxAnalyses
    /\ threatStats' = [threatStats EXCEPT !.threats_analyzed = @ + 1]
    /\ analysis' = [pc |-> "ip", found |-> found, result |-> InitialResult,
                    caught |-> {}]
    /\ UNCHANGED <<auditVars, alertVars, pipeVars, checkerVars, monitorVars, processVars, ipRequests, lastIndex>>

\* an analyzer has run on analysisResult and analyzeThreat goes on to the next
AnalyzerReturn(at, next, r) ==
    /\ analysis.pc = at
    /\ analysis' = [analysis EXCEPT !.pc = next, !.result = r]
    /\ UNCHANGED <<auditVars, alertVars, pipeVars, checkerVars, monitorVars, processVars, ipRequests, threatStats, lastIndex>>

IPThreatReturn ==
    AnalyzerReturn("ip", "pattern", analyzeIPThreat(analysis.found, analysis.result))

\* analyzePatternThreat has no await: its loops run in one piece
PatternThreatReturn ==
    /\ analysis.pc = "pattern"
    /\ LET pass == analyzePatternThreat(analysis.found, analysis.result, lastIndex)
       IN  /\ analysis' = [analysis EXCEPT !.pc = "anomaly", !.result = pass.result]
           /\ lastIndex' = pass.lastIndex
    /\ UNCHANGED <<auditVars, alertVars, pipeVars, checkerVars, monitorVars, processVars, ipRequests, threatStats>>

AnomalousActivityReturn ==
    AnalyzerReturn("anomaly", "geo",
                   analyzeAnomalousActivity(analysis.found, analysis.result))

GeolocationReturn ==
    AnalyzerReturn("geo", "ua", analyzeGeolocation(analysis.found, analysis.result))

UserAgentReturn ==
    AnalyzerReturn("ua", "compliance", analyzeUserAgent(analysis.found, analysis.result))

ConstitutionalComplianceReturn ==
    AnalyzerReturn("compliance", "score",
                   analyzeConstitutionalCompliance(analysis.found, analysis.result))

\* calculateThreatScore runs, a threat is counted, and analyzeThreat returns
\* analysisResult
ThreatScoreReturn ==
    /\ analysis.pc = "score"
    /\ LET r == calculateThreatScore(analysis.result)
       IN  /\ analysis' = [analysis EXCEPT !.pc = "done", !.result = r]
           /\ threatStats' = IF r.isThreat
                             THEN [threatStats EXCEPT !.threats_detected = @ + 1]
                             ELSE threatStats
    /\ UNCHANGED <<auditVars, alertVars, pipeVars, checkerVars, monitorVars, processVars, ipRequests, lastIndex>>

\* the caller has taken analysisResult; the detector is ready for the next event
AnalysisTaken ==
    /\ analysis.pc = "done"
    /\ analysis' = NoAnalysis
    /\ UNCHANGED <<auditVars, alertVars, pipeVars, checkerVars, monitorVars, processVars, ipRequests, threatStats, lastIndex>>

(***************************************************************************)
(* Exceptions inside the analyzers.  Every analyzer wraps its body in      *)
(* try/catch and logs a warning; what it has put into analysisResult       *)
(* before the exception stays there.  analysis.caught holds the analyzers  *)
(* whose catch block ran.                                                  *)
(***************************************************************************)

\* the exceptions followed in one call of analyzeThreat
MaxCaught == 1

\* the analyzers, by the place of analyzeThreat that awaits them
Analyzers == {"ip", "pattern", "anomaly", "geo", "ua", "compliance"}

\* the checks of an analyzer in the order its body makes them; the pattern
\* pass can only fail at JSON.stringify, before its loops
AnalyzerChecks(at) ==
    CASE at = "ip" -> <<"blacklisted_ip", "rate_limit_exceeded", "suspicious_timing">>
      [] at = "anomaly" -> <<"ddos_attempt", "admin_access_attempt", "oversized_payload">>
      [] at = "geo" -> <<"high_risk_country", "vpn_tor_usage">>
      [] at = "ua" -> <<"outdated_browser", "suspicious_bot", "user_agent_spoofing">>
      [] at = "compliance" -> <<"policy_violation">>
      [] OTHER -> <<>>

\* what the first k checks of an analyzer find for the event
Handled(at, k, found) ==
    {f \in found : f[1] = "check" /\ \E n \in 1..k : AnalyzerChecks(at)[n] = f[2]}

\* the body of an analyzer
RunAnalyzer(at, found, result) ==
    CASE at = "ip" -> analyzeIPThreat(found, result)
      [] at = "anomaly" -> analyzeAnomalousActivity(found, result)
      [] at = "geo" -> analyzeGeolocation(found, result)
      [] at = "ua" -> analyzeUserAgent(found, result)
      [] at = "compliance" -> analyzeConstitutionalCompliance(found, result)
      [] OTHER -> result

\* an analyzeThreat that gives up the remaining analyzers after an exception
NextAnalyzerToScore(at) == "score"

\* the statement of analyzeThreat behind the await of an analyzer
NextAnalyzer(at) ==
    CASE at = "ip" -> "pattern"
      [] at = "pattern" -> "anomaly"
      [] at = "anomaly" -> "geo"
      [] at = "geo" -> "ua"
      [] at = "ua" -> "compliance"
      [] at = "compliance" -> "score"

\* an analyzer throws after its first k checks: its catch block logs a
\* warning, the analyzer returns and analyzeThreat goes on
AnalyzerThrows(at, k) ==
    /\ analysis.pc = at
    /\ Cardinality(analysis.caught) < MaxCaught
    /\ k = 0 \/ k < Len(AnalyzerChecks(at))
    /\ analysis' = [analysis EXCEPT
                        !.pc = NextAnalyzer(at),
                        !.result = RunAnalyzer(at, Handled(at, k, analysis.found), @),
                        !.caught = @ \cup {at}]
    /\ UNCHANGED <<auditVars, alertVars, pipeVars, checkerVars, monitorVars, processVars,
                   ipRequests, threatStats, lastIndex>>

(***************************************************************************)
(* The request counter of analyzeIPThreat, for one source IP.  Time is in  *)
(* seconds.  In SpecScorer what the rate check finds is an input of the    *)
(* event; here the counter itself is followed over the requests of the IP. *)
(***************************************************************************)

\* `if (requestCount > 100)`
RateLimit == 100

\* the TTL setEx gives the counter, seconds
RateTtl == 60

\* the time between two instants of the cache clock, seconds
RateStep == 30

\* the last instant of the cache clock
MaxRateClock == 3090

\* redis.get(key) || 0: the value of the key while its TTL has not ended
StoredCount(key) == IF key.expires > key.clock THEN key.count ELSE 0

\* the requests of the IP in the 60 seconds up to the instant t
WindowAt(window, t) == SelectSeq(window, LAMBDA u : u >= t - RateTtl)

\* analyzeIPThreat's rate check for a request of the IP: getIPRequestCount
\* reads the counter, writes it back one higher with a TTL of 60 seconds and
\* returns what it read; an error of the cache is caught and 0 is returned.
\* The request is flagged when the count returned is above 100
getIPRequestCount(ok) ==
    /\ \A i \in 1..Len(ipRequests.window) : ipRequests.window[i] < ipRequests.clock
    /\ LET count == StoredCount(ipRequests)
           requestCount == IF ok THEN count ELSE 0
           window == Append(WindowAt(ipRequests.window, ipRequests.clock),
                            ipRequests.clock)
       IN  ipRequests' =
               [ipRequests EXCEPT
                   !.count = IF ok THEN count + 1 ELSE @,
                   !.expires = IF ok THEN ipRequests.clock + RateTtl ELSE @,
                   !.window = window,
                   !.peak = IF Len(window) > @ THEN Len(window) ELSE @,
                   !.flagged = @ \/ requestCount > RateLimit]
    /\ UNCHANGED <<auditVars, alertVars, pipeVars, checkerVars, monitorVars, processVars,
                   analysis, threatStats, lastIndex>>

\* time passes at the cache: a key whose TTL has ended is removed
RateTick ==
    /\ ipRequests.clock + RateStep <= MaxRateClock
    /\ LET t == ipRequests.clock + RateStep
           live == ipRequests.expires > t
       IN  ipRequests' = [ipRequests EXCEPT
                             !.clock = t,
                             !.count = IF live THEN @ ELSE 0,
                             !.expires = IF live THEN @ ELSE 0,
                             !.window = WindowAt(@, t)]
    /\ UNCHANGED <<auditVars, alertVars, pipeVars, checkerVars, monitorVars, processVars,
                   analysis, threatStats, lastIndex>>

NextRate ==
    \/ \E ok \in BOOLEAN : getIPRequestCount(ok)
    \/ RateTick

InitRateOnly == AuditIdle /\ AlertIdle /\ InitPipeline /\ InitScorer /\ InitChecker /\ InitMonitor /\ InitProcess

SpecRate == InitRateOnly /\ [][NextRate]_vars

\* C34: the rate analyzer adds 'rate_limit_exceeded' only on a request count
\* per minute above 100: an IP is flagged only when some window of 60 seconds
\* has held more than 100 of its requests, however many requests it has sent
\* in total.
C34_RateWindow ==
    ipRequests.flagged => ipRequests.peak > RateLimit

(***************************************************************************)
(* ComplianceChecker (threatDetector.js): checkCompliance scores a content *)
(* against the constitutional principles.  A content is represented by the *)
(* regular expressions of the principles that match it, each with the      *)
(* length class of its first match (matches[0].length > 10 or not).        *)
(* Numbers are scaled to integers: a weight is in hundredths, a confidence *)
(* in tenths, a score in thousandths, so weight * confidence is in the     *)
(* unit of the score.                                                      *)
(***************************************************************************)

\* Object.keys(this.constitutionalPrinciples), in insertion order
PrincipleOrder ==
    << "human_dignity", "individual_freedom", "equality_fairness",
       "justice_rule_of_law", "democratic_participation",
       "accountability_transparency", "beneficence_non_maleficence",
       "privacy_protection", "truthfulness_honesty", "sustainability" >>

Principles == Range(PrincipleOrder)

\* config.weight, in hundredths
Weight(principle) ==
    CASE principle = "human_dignity"               -> 100
      [] principle = "individual_freedom"          -> 90
      [] principle = "equality_fairness"           -> 95
      [] principle = "justice_rule_of_law"         -> 90
      [] principle = "democratic_participation"    -> 80
      [] principle = "accountability_transparency" -> 95
      [] principle = "beneficence_non_maleficence" -> 100
      [] principle = "privacy_protection"          -> 95
      [] principle = "truthfulness_honesty"        -> 90
      [] principle = "sustainability"              -> 80

\* config.patterns: every principle carries three regular expressions, none
\* with the flag g, each with a word boundary \b
PrinciplePatterns == {<<principle, k>> : principle \in Principles, k \in 1..3}

\* the regular expressions whose every match is longer than 10 characters
\* (all alternatives are of the form word.*word with at least 11 letters)
LongOnly ==
    { <<"human_dignity", 2>>, <<"individual_freedom", 2>>,
      <<"equality_fairness", 3>>, <<"democratic_participation", 1>>,
      <<"democratic_participation", 3>>, <<"accountability_transparency", 3>>,
      <<"privacy_protection", 3>>, <<"truthfulness_honesty", 3>>,
      <<"sustainability", 2>>, <<"sustainability", 3>> }

\* the regular expressions whose every match has at most 10 characters (all
\* alternatives are fixed words of at most 10 letters)
ShortOnly ==
    { <<"human_dignity", 1>>, <<"human_dignity", 3>>,
      <<"individual_freedom", 1>>, <<"equality_fairness", 2>>,
      <<"justice_rule_of_law", 1>>, <<"justice_rule_of_law", 3>>,
      <<"beneficence_non_maleficence", 1>>,
      <<"beneficence_non_maleficence", 2>>,
      <<"beneficence_non_maleficence", 3>> }

\* the length classes the first match of a regular expression can have
Lengths(pattern) ==
    IF pattern \in LongOnly THEN {"long"}
    ELSE IF pattern \in ShortOnly THEN {"short"}
    ELSE {"short", "long"}

\* content.match(pattern) is not null: <<principle, k, length class>>
Matches ==
    {<<p[1], p[2], len>> : p \in PrinciplePatterns, len \in {"short", "long"}}

RECURSIVE MatchSets(_)
MatchSets(n) ==
    IF n = 0 THEN {{}}
    ELSE LET smaller == MatchSets(n - 1)
         IN  smaller \cup {c \cup {m} : c \in smaller, m \in Matches}

\* the regular expression k of the principle matches the content
Matched(principle, k, content) ==
    \E len \in {"short", "long"} : <<principle, k, len>> \in content

\* a content some text has: a first match has one length, of a class its
\* regular expression allows; a long match of (propaganda|manipulation|
\* deception) is the word manipulation, which (coerce|force|manipulat|deceive)
\* matches too; a match of false.*information longer than 10 characters
\* holds the word false, which (lie|false|fake|misinformation) matches too
Realisable(content) ==
    /\ \A m \in content : m[3] \in Lengths(<<m[1], m[2]>>)
    /\ \A m, n \in content : (m[1] = n[1] /\ m[2] = n[2]) => m = n
    /\ <<"truthfulness_honesty", 2, "long">> \in content
          => Matched("individual_freedom", 1, content)
    /\ <<"accountability_transparency", 2, "long">> \in content
          => \/ Matched("truthfulness_honesty", 1, content)
             \/ Matched("truthfulness_honesty", 2, content)

\* the contents checkCompliance is called with
ComplianceInputs == {content \in MatchSets(MaxMatches) : Realisable(content)}

Min(a, b) == IF a < b THEN a ELSE b

Max(a, b) == IF a > b THEN a ELSE b

\* what one matching regular expression adds to violation.confidence, in
\* tenths: 0.3, 0.2 for the word boundary in pattern.source, 0.1 for a first
\* match longer than 10 characters
Contribution(principle, k, content) ==
    IF <<principle, k, "long">> \in content THEN 3 + 2 + 1
    ELSE IF <<principle, k, "short">> \in content THEN 3 + 2
    ELSE 0

\* if (matches) violation.violated = true, for some pattern of the principle
ViolatedOnTwoMatches(principle, content) ==
    \E j, k \in 1..3 :
        j # k /\ Matched(principle, j, content) /\ Matched(principle, k, content)

Violated(principle, content) ==
    \E k \in 1..3 : Matched(principle, k, content)

\* the severity that follows from a confidence, in tenths
SeverityOf(confidence) ==
    IF confidence > 8 THEN "critical"
    ELSE IF confidence > 6 THEN "high"
    ELSE IF confidence > 4 THEN "medium"
    ELSE "low"

\* the principles whose violation is always critical
EscalatedNone(principle) == FALSE

Escalated(principle) ==
    principle \in {"human_dignity", "beneficence_non_maleficence"}

checkPrincipleViolation(principle, content) ==
    LET violated   == Violated(principle, content)
        summed     == Contribution(principle, 1, content)
                        + Contribution(principle, 2, content)
                        + Contribution(principle, 3, content)
        confidence == Min(10, summed)
        escalate   == Escalated(principle) /\ violated
    IN  [ violated         |-> violated,
          severity         |-> IF escalate THEN "critical"
                               ELSE SeverityOf(confidence),
          confidence       |-> IF escalate THEN Max(8, confidence)
                               ELSE confidence,
          matched_patterns |-> {k \in 1..3 : Matched(principle, k, content)} ]

\* the result checkCompliance starts from
InitialCompliance == [compliant |-> TRUE, violations |-> <<>>, score |-> 1000]

\* the loop of checkCompliance over the principles, from principle i on
RECURSIVE PrinciplesFrom(_, _, _)
PrinciplesFrom(i, content, result) ==
    IF i > Len(PrincipleOrder) THEN result
    ELSE LET principle      == PrincipleOrder[i]
             violationCheck == checkPrincipleViolation(principle, content)
         IN  IF violationCheck.violated
             THEN PrinciplesFrom(i + 1, content,
                    [ compliant  |-> FALSE,
                      violations |-> Append(result.violations,
                          [ principle        |-> principle,
                            severity         |-> violationCheck.severity,
                            confidence       |-> violationCheck.confidence,
                            matched_patterns |-> violationCheck.matched_patterns ]),
                      score      |-> result.score
                                       - Weight(principle) * violationCheck.confidence ])
             ELSE PrinciplesFrom(i + 1, content, result)

\* Math.max(0, Math.min(1, score)), in thousandths
NormalizeAbove(score) == Min(1000, score)

Normalize(score) == Max(0, Min(1000, score))

\* the result of checkCompliance for a content
ComplianceResult(content) ==
    LET result == PrinciplesFrom(1, content, InitialCompliance)
    IN  [result EXCEPT !.score = Normalize(@)]

\* checkCompliance(data), to the end of the loop over the principles and the
\* update of the statistics; a violating result goes on to recordViolation
checkCompliance(content) ==
    /\ compliance.pc = "idle"
    /\ complianceStats.checks_performed < MaxChecks
    /\ LET result == ComplianceResult(content)
       IN  /\ compliance' = [ pc      |-> IF result.compliant THEN "done" ELSE "record",
                              content |-> content,
                              result  |-> result ]
           /\ complianceStats' =
                 [ checks_performed    |-> complianceStats.checks_performed + 1,
                   violations_detected |->
                       IF result.compliant
                       THEN complianceStats.violations_detected
                       ELSE complianceStats.violations_detected + 1 ]
    /\ UNCHANGED <<auditVars, alertVars, pipeVars, scorerVars, monitorVars, processVars>>

\* await this.recordViolation(result) returns: the writes to the store
\* succeeded, or failed and were logged; the result is returned either way
RecordViolationReturn ==
    /\ compliance.pc = "record"
    /\ compliance' = [compliance EXCEPT !.pc = "done"]
    /\ UNCHANGED <<auditVars, alertVars, pipeVars, scorerVars, monitorVars, processVars, complianceStats>>

\* the caller has taken the result; the checker is ready for the next content
ComplianceTaken ==
    /\ compliance.pc = "done"
    /\ compliance' = NoCheck
    /\ UNCHANGED <<auditVars, alertVars, pipeVars, scorerVars, monitorVars, processVars, complianceStats>>

NextScorer ==
    \/ /\ analysis.pc = "idle"
       /\ compliance.pc = "idle"
       /\ \E found \in AnalysisInputs : analyzeThreat(found)
    \/ /\ compliance.pc = "idle"
       /\ analysis.pc = "idle"
       /\ \E content \in ComplianceInputs : checkCompliance(content)
    \/ RecordViolationReturn
    \/ ComplianceTaken
    \/ IPThreatReturn
    \/ PatternThreatReturn
    \/ AnomalousActivityReturn
    \/ GeolocationReturn
    \/ UserAgentReturn
    \/ ConstitutionalComplianceReturn
    \/ ThreatScoreReturn
    \/ AnalysisTaken

\* the detector alone, with exceptions inside its analyzers
NextScorerFaults ==
    \/ /\ analysis.pc = "idle"
       /\ \E found \in AnalysisInputs : analyzeThreat(found)
    \/ IPThreatReturn
    \/ PatternThreatReturn
    \/ AnomalousActivityReturn
    \/ GeolocationReturn
    \/ UserAgentReturn
    \/ ConstitutionalComplianceReturn
    \/ ThreatScoreReturn
    \/ AnalysisTaken
    \/ \E at \in Analyzers, k \in 0..2 : AnalyzerThrows(at, k)

InitScorerOnly == AuditIdle /\ AlertIdle /\ InitPipeline /\ InitScorer /\ InitChecker /\ InitMonitor /\ InitProcess

SpecScorer == InitScorerOnly /\ [][NextScorer]_vars

SpecScorerFaults == InitScorerOnly /\ [][NextScorerFaults]_vars

(***************************************************************************)
(* Properties of the threat score                                          *)
(***************************************************************************)
\* the severity the analyzers give a category they match: the one they assign
\* with its tag, or the severityMap entry of a pattern category; the tags that
\* come without a severity count as 'low', the severity of an empty result
CategorySeverity(tag) ==
    CASE tag \in {"blacklisted_ip", "ddos_attempt"} -> "high"
      [] tag = "rate_limit_exceeded" -> "medium"
      [] tag \in Range(PatternOrder) -> severityMap(tag)
      [] OTHER -> "low"

\* the highest severity level among the categories in a list of tags
MaxLevel(threatTypes) ==
    LET levels == {getSeverityLevel(CategorySeverity(t)) : t \in Range(threatTypes)}
                      \cup {getSeverityLevel("low")}
    IN  CHOOSE l \in levels : \A m \in levels : m <= l

\* C20: the severity of the result analyzeThreat returns is the maximum
\* severity over the categories matched for the event, and no analyzer that
\* matches a further category lowers the severity an earlier one has set.
C20_MonotonicSeverity ==
    [][/\ (analysis.pc # "idle" /\ analysis'.pc \notin {"idle", "ip"}) =>
              getSeverityLevel(analysis'.result.severity)
                  >= getSeverityLevel(analysis.result.severity)
       /\ analysis'.pc = "done" =>
              getSeverityLevel(analysis'.result.severity)
                  = MaxLevel(analysis'.result.threatTypes)]_vars


\* the payload of the event matches a policy-violation pattern: one of the
\* patterns of analyzeConstitutionalCompliance, or one of the category
\* constitutional_violation of the pattern pass
PolicyViolationFound(found) ==
    \/ <<"check", "policy_violation">> \in found
    \/ \E k \in 1..PatternCount("constitutional_violation") :
           <<"pattern", "constitutional_violation", k>> \in found

\* C21: for every event whose payload matches a policy-violation pattern,
\* analyzeThreat returns isThreat = true and constitutional_compliant = false,
\* whatever the other analyzers have found.
C21_ComplianceOverride ==
    (analysis.pc = "done" /\ PolicyViolationFound(analysis.found)) =>
        /\ analysis.result.isThreat
        /\ ~analysis.result.constitutional_compliant

\* an event for which nothing but a pattern of the policy check matches has
\* been analysed to the end and is returned as a non-compliant threat
C21_Witness ==
    /\ analysis.pc = "done"
    /\ analysis.found = {<<"check", "policy_violation">>}
    /\ analysis.result.isThreat
    /\ ~analysis.result.constitutional_compliant
    /\ analysis.result.threatTypes = <<"constitutional_violation">>


\* C23: for every event whose source.ip is in the blacklist, analyzeThreat
\* returns isThreat = true, threatTypes containing 'blacklisted_ip', and a
\* severity not below 'high', whatever the request-rate check finds for the
\* same IP.
C23_BlacklistForcesHigh ==
    (analysis.pc = "done" /\ <<"check", "blacklisted_ip">> \in analysis.found) =>
        /\ analysis.result.isThreat
        /\ "blacklisted_ip" \in Range(analysis.result.threatTypes)
        /\ getSeverityLevel(analysis.result.severity) >= getSeverityLevel("high")


\* the tag an analyzer pushes for a check
TagOf(check) == IF check = "policy_violation" THEN "constitutional_violation" ELSE check

\* C40: an exception inside one analyzer is contained in that analyzer:
\* analyzeThreat goes on with the next analyzer and keeps what analysisResult
\* held (its tags in their order, its confidence, its verdict); when it
\* returns, every check of the other analyzers that holds for the event has
\* its tag in threatTypes, the scoring step has been applied (a violation is
\* a threat) and the confidence is between 0 and 1.
C40_AnalyzerExceptionContained ==
    /\ [][\A at \in Analyzers :
            (analysis.pc = at /\ analysis'.pc # at /\ analysis'.caught # analysis.caught) =>
                /\ analysis'.pc = NextAnalyzer(at)
                /\ Len(analysis'.result.threatTypes) >= Len(analysis.result.threatTypes)
                /\ SubSeq(analysis'.result.threatTypes, 1, Len(analysis.result.threatTypes))
                      = analysis.result.threatTypes
                /\ analysis'.result.confidence >= analysis.result.confidence
                /\ analysis.result.isThreat => analysis'.result.isThreat]_vars
    /\ []((analysis.pc = "done" /\ analysis.caught # {}) =>
            /\ analysis.result.confidence \in 0..10
            /\ ~analysis.result.constitutional_compliant => analysis.result.isThreat
            /\ \A f \in analysis.found :
                   (/\ f[1] = "check"
                    /\ \A at \in analysis.caught :
                           \A n \in 1..Len(AnalyzerChecks(at)) : AnalyzerChecks(at)[n] # f[2])
                   => TagOf(f[2]) \in Range(analysis.result.threatTypes))

\* analyzeThreat has returned a result for an event with a blacklisted IP, a
\* request burst and a suspicious bot although analyzeAnomalousActivity threw:
\* the tag pushed before the exception and the tag pushed after it are there
C40_Witness ==
    /\ analysis.pc = "done"
    /\ analysis.caught = {"anomaly"}
    /\ analysis.found = {<<"check", "blacklisted_ip">>, <<"check", "ddos_attempt">>,
                         <<"check", "suspicious_bot">>}
    /\ analysis.result.threatTypes = <<"blacklisted_ip", "suspicious_bot">>
    /\ analysis.result.confidence = 10
    /\ analysis.result.isThreat

\* C35: threatTypes of every result analyzeThreat returns is a set: no
\* category tag occurs in it more than once, also when several patterns of one
\* category match or when the pattern pass and the policy pass both detect a
\* violation, so the number of tags the low-band rule counts is the number of
\* distinct categories.
C35_ThreatTypesIsSet ==
    analysis.pc = "done" =>
        /\ NoDup(analysis.result.threatTypes)
        /\ Len(analysis.result.threatTypes)
              = Cardinality(Range(analysis.result.threatTypes))

(***************************************************************************)
(* Determinism of the scorers.                                             *)
(***************************************************************************)

\* what analyzeThreat returns for an event on a detector whose regular
\* expressions have all their lastIndex at 0
FreshResult(found) ==
    LET zero == [p \in GlobalPatterns |-> 0]
        r1   == analyzeIPThreat(found, InitialResult)
        r2   == analyzePatternThreat(found, r1, zero).result
        r3   == analyzeAnomalousActivity(found, r2)
        r4   == analyzeGeolocation(found, r3)
        r5   == analyzeUserAgent(found, r4)
        r6   == analyzeConstitutionalCompliance(found, r5)
    IN  calculateThreatScore(r6)

\* C22: the scorers are deterministic.  Whatever the detector analysed
\* before, analyzeThreat returns for an event the confidence, threatTypes and
\* isThreat that the content of the event and the external state its checks
\* read determine, so two events of identical content get the same three;
\* and whatever the checker checked before, checkCompliance returns for a
\* content the score and the violations that the content determines.
C22_Deterministic ==
    /\ analysis.pc = "done" =>
          LET fresh == FreshResult(analysis.found)
          IN  /\ analysis.result.confidence = fresh.confidence
              /\ analysis.result.threatTypes = fresh.threatTypes
              /\ analysis.result.isThreat = fresh.isThreat
    /\ compliance.pc = "done" =>
          LET fresh == ComplianceResult(compliance.content)
          IN  /\ compliance.result.score = fresh.score
              /\ compliance.result.violations = fresh.violations

\* a second analysis on the same detector has returned for an event that a
\* regular expression with the flag g matches, and a second check on the same
\* checker has returned violations
C22_Witness ==
    /\ analysis.pc = "done"
    /\ threatStats.threats_analyzed = 2
    /\ <<"pattern", "xss_attack", 1>> \in analysis.found
    /\ "xss_attack" \in Range(analysis.result.threatTypes)
    /\ lastIndex = [p \in GlobalPatterns |-> 0]
    /\ complianceStats.checks_performed = 2
    /\ complianceStats.violations_detected = 2


(***************************************************************************)
(* Properties of the compliance result.                                    *)
(***************************************************************************)

\* the principles some pattern of which matches the content
ViolatedPrinciples(content) == {m[1] : m \in content}

\* C24: in the result of checkCompliance, compliant is true exactly when
\* violations is empty; a content that no pattern of any principle matches is
\* compliant with score 1.0 and no violations; a content that violates at
\* least one principle is not compliant and scores below 1.0.
C24_CompliantIffNoViolation ==
    compliance.pc \in {"record", "done"} =>
        LET result == compliance.result
        IN  /\ result.compliant <=> (result.violations = <<>>)
            /\ compliance.content = {} =>
                  /\ result.compliant
                  /\ result.score = 1000
                  /\ result.violations = <<>>
            /\ compliance.content # {} =>
                  /\ ~result.compliant
                  /\ result.score < 1000
                  /\ {v.principle : v \in Range(result.violations)}
                        = ViolatedPrinciples(compliance.content)

\* a check has returned not compliant for a content that a pattern matches,
\* after a check that returned compliant
C24_Witness ==
    /\ compliance.pc = "done"
    /\ compliance.content # {}
    /\ ~compliance.result.compliant
    /\ complianceStats.checks_performed = 2
    /\ complianceStats.violations_detected = 1


\* the sum of weight * confidence over the violations of a result
RECURSIVE Deductions(_)
Deductions(list) ==
    IF list = <<>> THEN 0
    ELSE Weight(Head(list).principle) * Head(list).confidence
           + Deductions(Tail(list))

\* C25: the score of checkCompliance is 1.0 minus the sum, over the violated
\* principles, of weight times confidence, clamped to [0, 1]; and a content
\* that violates one more principle never scores higher.
C25_ScoreFormula ==
    compliance.pc \in {"record", "done"} =>
        LET result   == compliance.result
            unclamped == 1000 - Deductions(result.violations)
        IN  /\ result.score >= 0
            /\ result.score <= 1000
            /\ result.score = (IF unclamped < 0 THEN 0
                               ELSE IF unclamped > 1000 THEN 1000
                               ELSE unclamped)
            /\ \A m \in Matches :
                  (/\ m[1] \notin ViolatedPrinciples(compliance.content)
                   /\ Realisable(compliance.content \cup {m}))
                  => ComplianceResult(compliance.content \cup {m}).score
                        <= result.score

\* a check has returned for a content that violates the two principles of
\* weight 1.0 with confidence 0.8 each: the sum 1.6 exceeds 1.0 and the score
\* is clamped to 0
C25_Witness ==
    /\ compliance.pc = "done"
    /\ ViolatedPrinciples(compliance.content)
          = {"human_dignity", "beneficence_non_maleficence"}
    /\ Deductions(compliance.result.violations) = 1600
    /\ compliance.result.score = 0


\* C26: for human_dignity and beneficence_non_maleficence any pattern match
\* yields a violation of severity critical and confidence at least 0.8; for
\* every other principle the confidence of a violation is the sum of the
\* contributions of its matches, clamped to 1.0, and the severity follows
\* from the confidence.
C26_Escalation ==
    compliance.pc \in {"record", "done"} =>
        LET listed == Range(compliance.result.violations)
        IN  /\ \A principle \in {"human_dignity", "beneficence_non_maleficence"} :
                  principle \in ViolatedPrinciples(compliance.content)
                  => \E v \in listed :
                        /\ v.principle = principle
                        /\ v.severity = "critical"
                        /\ v.confidence >= 8
            /\ \A v \in listed :
                  IF v.principle \in {"human_dignity", "beneficence_non_maleficence"}
                  THEN v.severity = "critical" /\ v.confidence >= 8
                  ELSE LET summed == Contribution(v.principle, 1, compliance.content)
                                   + Contribution(v.principle, 2, compliance.content)
                                   + Contribution(v.principle, 3, compliance.content)
                       IN  /\ v.confidence = (IF summed > 10 THEN 10 ELSE summed)
                           /\ v.severity = SeverityOf(v.confidence)

\* a check has returned for a content that one short match of human_dignity
\* and one short match of another principle match: the first violation is
\* critical with confidence 0.8, the second medium with confidence 0.5
C26_Witness ==
    /\ compliance.pc = "done"
    /\ \E k \in 1..3 : <<"human_dignity", k, "short">> \in compliance.content
    /\ Len(compliance.result.violations) = 2
    /\ compliance.result.violations[1].principle = "human_dignity"
    /\ compliance.result.violations[1].severity = "critical"
    /\ compliance.result.violations[1].confidence = 8
    /\ compliance.result.violations[2].severity = "medium"
    /\ compliance.result.violations[2].confidence = 5


(***************************************************************************)
(* SecurityMonitor (securityMonitor.js): metrics, health check, anomalies. *)
(***************************************************************************)
Levels == {"normal", "elevated", "exceeded"}

\* the values currentMetrics can take
MetricsSpace ==
    [ cpu_usage                 : Levels,
      memory_usage              : Levels,
      disk_usage                : {"normal"},
      load_average              : Levels,
      threats_detected          : {"low", "high"},
      constitutional_violations : {0, 1},
      failed_authentications    : {"low", "high"},
      avg_response_time         : {"low", "high"},
      error_rate                : {"low", "raised", "high"},
      database_connections      : {0, 1} ]

\* the number of metrics away from their quiet value
Unhealthy(m) == Cardinality({f \in DOMAIN m : m[f] # QuietMetrics[f]})

MetricsInputs == {m \in MetricsSpace : Unhealthy(m) <= MaxUnhealthy}

\* collectSystemMetrics: cpu_usage, memory_usage and load_average are read
\* from the operating system; collectDiskUsage sets disk_usage to 0
collectSystemMetrics(cpu, memory, load) ==
    /\ health.pc = "idle" /\ anomalyScan.pc = "idle"
    /\ currentMetrics' = [currentMetrics EXCEPT
                             !.cpu_usage = cpu,
                             !.memory_usage = memory,
                             !.load_average = load,
                             !.disk_usage = "normal"]
    /\ currentMetrics' \in MetricsInputs
    /\ UNCHANGED <<auditVars, alertVars, pipeVars, scorerVars, checkerVars, processVars, metricsHistory,
                   health, anomalyScan, monitorStats>>

\* collectSecurityMetrics: the counters are read from the cache
collectSecurityMetrics(threats, failures, violationKeys) ==
    /\ health.pc = "idle" /\ anomalyScan.pc = "idle"
    /\ currentMetrics' = [currentMetrics EXCEPT
                             !.threats_detected = threats,
                             !.failed_authentications = failures,
                             !.constitutional_violations = violationKeys]
    /\ currentMetrics' \in MetricsInputs
    /\ UNCHANGED <<auditVars, alertVars, pipeVars, scorerVars, checkerVars, processVars, metricsHistory,
                   health, anomalyScan, monitorStats>>

\* collectPerformanceMetrics: response time and error rate are read from the
\* cache; database_connections becomes 1 when the store is connected and is
\* left as it is otherwise
collectPerformanceMetrics(responseTime, errorRate, connected) ==
    /\ health.pc = "idle" /\ anomalyScan.pc = "idle"
    /\ currentMetrics' = [currentMetrics EXCEPT
                             !.avg_response_time = responseTime,
                             !.error_rate = errorRate,
                             !.database_connections = IF connected THEN 1 ELSE @]
    /\ currentMetrics' \in MetricsInputs
    /\ UNCHANGED <<auditVars, alertVars, pipeVars, scorerVars, checkerVars, processVars, metricsHistory,
                   health, anomalyScan, monitorStats>>

\* checkCPUHealth, checkMemoryHealth, checkDiskHealth, checkLoadHealth: the
\* status of a usage
UsageStatus(level) ==
    IF level = "exceeded" THEN "critical"
    ELSE IF level = "elevated" THEN "warning"
    ELSE "healthy"

checkSecurityHealth(m) ==
    LET issues == {i \in {"threats", "violations", "logins"} :
                      \/ i = "threats" /\ m.threats_detected = "high"
                      \/ i = "violations" /\ m.constitutional_violations > 0
                      \/ i = "logins" /\ m.failed_authentications = "high"}
    IN  IF issues # {}
        THEN IF m.constitutional_violations > 0 THEN "critical" ELSE "warning"
        ELSE "healthy"

checkPerformanceHealth(m) ==
    LET issues == {i \in {"response", "errors", "database"} :
                      \/ i = "response" /\ m.avg_response_time = "high"
                      \/ i = "errors" /\ m.error_rate = "high"
                      \/ i = "database" /\ m.database_connections = 0}
    IN  IF issues # {}
        THEN IF m.database_connections = 0 THEN "critical" ELSE "warning"
        ELSE "healthy"

\* Object.entries(healthStatus.checks), in the order of the object literal
CheckOrder == <<"cpu", "memory", "disk", "load", "security", "performance">>

\* healthStatus.checks: the status of every check
HealthChecks(m) ==
    [ cpu         |-> UsageStatus(m.cpu_usage),
      memory      |-> UsageStatus(m.memory_usage),
      disk        |-> UsageStatus(m.disk_usage),
      load        |-> UsageStatus(m.load_average),
      security    |-> checkSecurityHealth(m),
      performance |-> checkPerformanceHealth(m) ]

\* the entries of alerts_needed for the checks from check i on
RECURSIVE AlertsNeededFrom(_, _)
AlertsNeededFrom(i, checks) ==
    IF i > Len(CheckOrder) THEN <<>>
    ELSE LET name == CheckOrder[i]
         IN  IF checks[name] \in {"critical", "warning"}
             THEN <<[check |-> name, status |-> checks[name]]>>
                    \o AlertsNeededFrom(i + 1, checks)
             ELSE AlertsNeededFrom(i + 1, checks)

\* healthStatus after the evaluation of the checks
EvaluateChecks(checks) ==
    LET failedChecks == {name \in Range(CheckOrder) : checks[name] # "healthy"}
    IN  [ overall_status |->
              IF failedChecks # {}
              THEN IF \E name \in failedChecks : checks[name] = "critical"
                   THEN "critical" ELSE "warning"
              ELSE "healthy",
          alerts_needed |-> AlertsNeededFrom(1, checks) ]

\* checkSystemHealth up to `await this.redis.setEx('monitoring:health_status')`
checkSystemHealth ==
    /\ health.pc = "idle" /\ anomalyScan.pc = "idle"
    /\ monitorStats.total_health_checks < MaxHealthChecks
    /\ monitorStats' = [monitorStats EXCEPT !.total_health_checks = @ + 1]
    /\ LET checks == HealthChecks(currentMetrics)
       IN  health' = [pc |-> "store", checks |-> checks,
                      healthStatus |-> EvaluateChecks(checks)]
    /\ UNCHANGED <<auditVars, alertVars, pipeVars, scorerVars, checkerVars, processVars, metricsHistory,
                   currentMetrics, anomalyScan>>

\* the write of the health status returns: when it is rejected the catch
\* block returns a status of 'error'; otherwise handleHealthAlerts is called
\* when alerts are needed
HealthStatusStored(stored) ==
    /\ health.pc = "store"
    /\ health' =
          IF ~stored
          THEN [health EXCEPT !.pc = "done",
                              !.healthStatus = [overall_status |-> "error",
                                                alerts_needed |-> <<>>]]
          ELSE IF health.healthStatus.alerts_needed # <<>>
          THEN [health EXCEPT !.pc = "alerts"]
          ELSE [health EXCEPT !.pc = "done"]
    /\ UNCHANGED <<auditVars, alertVars, pipeVars, scorerVars, checkerVars, processVars, metricsHistory,
                   currentMetrics, anomalyScan, monitorStats>>

\* handleHealthAlerts: every alert is logged, and counted once the counter in
\* the cache is incremented; the first rejected increment ends the loop
handleHealthAlerts(counted) ==
    /\ health.pc = "alerts"
    /\ counted \in 0..Len(health.healthStatus.alerts_needed)
    /\ monitorStats' = [monitorStats EXCEPT !.alerts_triggered = @ + counted]
    /\ health' = [health EXCEPT !.pc = "done"]
    /\ UNCHANGED <<auditVars, alertVars, pipeVars, scorerVars, checkerVars, processVars, metricsHistory,
                   currentMetrics, anomalyScan>>

\* the caller has taken healthStatus
HealthTaken ==
    /\ health.pc = "done"
    /\ health' = NoHealth
    /\ UNCHANGED <<auditVars, alertVars, pipeVars, scorerVars, checkerVars, processVars, metricsHistory,
                   currentMetrics, anomalyScan, monitorStats>>

\* detectAnomalies up to recordAnomalies: trafficSpike says that the history
\* average of requests_per_second is above 0 and the current value above 3
\* times it, errorDoubled that the current error_rate is above 2 times its
\* history average
detectAnomalies(trafficSpike, errorDoubled) ==
    /\ anomalyScan.pc = "idle" /\ health.pc = "idle"
    /\ monitorStats.anomalies_detected < MaxAnomalies
    /\ LET anomalies ==
              {t \in {"traffic_spike"} : trafficSpike}
              \cup {t \in {"error_spike"} :
                       errorDoubled /\ currentMetrics.error_rate # "low"}
       IN  /\ anomalyScan' = [pc |-> IF anomalies # {} THEN "record" ELSE "done",
                              anomalies |-> anomalies]
           /\ monitorStats' = [monitorStats EXCEPT
                                  !.anomalies_detected = @ + Cardinality(anomalies)]
    /\ UNCHANGED <<auditVars, alertVars, pipeVars, scorerVars, checkerVars, processVars, metricsHistory,
                   currentMetrics, health>>

\* recordAnomalies returns: the anomalies are in the cache, or the write
\* failed and was logged; the anomalies are logged and returned
AnomaliesRecorded ==
    /\ anomalyScan.pc = "record"
    /\ anomalyScan' = [anomalyScan EXCEPT !.pc = "done"]
    /\ UNCHANGED <<auditVars, alertVars, pipeVars, scorerVars, checkerVars, processVars, metricsHistory,
                   currentMetrics, health, monitorStats>>

\* the caller has taken the anomalies
AnomaliesTaken ==
    /\ anomalyScan.pc = "done"
    /\ anomalyScan' = NoScan
    /\ UNCHANGED <<auditVars, alertVars, pipeVars, scorerVars, checkerVars, processVars, metricsHistory,
                   currentMetrics, health, monitorStats>>

NextMonitor ==
    \/ \E cpu, memory, load \in Levels : collectSystemMetrics(cpu, memory, load)
    \/ \E threats, failures \in {"low", "high"}, violationKeys \in {0, 1} :
          collectSecurityMetrics(threats, failures, violationKeys)
    \/ \E responseTime \in {"low", "high"}, errorRate \in {"low", "raised", "high"},
          connected \in BOOLEAN :
          collectPerformanceMetrics(responseTime, errorRate, connected)
    \/ checkSystemHealth
    \/ \E stored \in BOOLEAN : HealthStatusStored(stored)
    \/ \E counted \in 0..Len(CheckOrder) : handleHealthAlerts(counted)
    \/ HealthTaken
    \/ \E trafficSpike, errorDoubled \in BOOLEAN :
          detectAnomalies(trafficSpike, errorDoubled)
    \/ AnomaliesRecorded
    \/ AnomaliesTaken

InitMonitorOnly == AuditIdle /\ AlertIdle /\ InitPipeline /\ InitScorer /\ InitChecker /\ InitMonitor /\ InitProcess

SpecMonitor == InitMonitorOnly /\ [][NextMonitor]_vars


(***************************************************************************)
(* Properties of the monitor.                                              *)
(***************************************************************************)

\* C27: the overall status that checkSystemHealth returns is 'critical' when
\* at least one check is critical, 'warning' when at least one check is not
\* healthy and none is critical, and 'healthy' only when every check is
\* healthy.
C27_OverallStatus ==
    health.pc = "done" =>
        LET statuses == {health.checks[name] : name \in Range(CheckOrder)}
            overall  == health.healthStatus.overall_status
        IN  /\ "critical" \in statuses => overall = "critical"
            /\ (statuses # {"healthy"} /\ "critical" \notin statuses)
                  => overall = "warning"
            /\ overall = "healthy" => statuses = {"healthy"}


\* the monitor with its scheduling: the interval callbacks keep firing and
\* every pending await returns
SpecMonitorLive == InitMonitorOnly /\ [][NextMonitor]_vars /\ WF_vars(NextMonitor)

\* a call of sendSystemAlert has been made
SystemAlertSubmitted == \E i \in 1..Len(calls) : calls[i].type = "system"

\* C28: every anomaly that detectAnomalies finds and every health check that
\* breaches a threshold leads to a system alert submitted to the Alert
\* Dispatcher by sendSystemAlert.
C28_BreachLeadsToSystemAlert ==
    (\/ anomalyScan.anomalies # {}
     \/ /\ health.pc \in {"alerts", "done"}
        /\ health.healthStatus.alerts_needed # <<>>)
    ~> SystemAlertSubmitted


(***************************************************************************)
(* storeMetrics (securityMonitor.js), for one category.  The collectors    *)
(* call it with the snapshot they have taken; a snapshot is represented by *)
(* its number in the order the calls were made.                            *)
(***************************************************************************)

\* the calls of storeMetrics followed
MaxSamples == 62

\* the cache commands that may fail
MaxStoreErrors == 1

\* lTrim(historyKey, 0, 59): the index of the last element kept
HistoryLast == 59

\* LPUSH: the element becomes the head of the list
lPush(list, x) == <<x>> \o list

\* a trim that keeps the tail of the list
lTrimTail(list, start, stop) ==
    IF Len(list) <= stop + 1 THEN list
    ELSE SubSeq(list, Len(list) - stop, Len(list))

\* LTRIM: the elements at the indices start..stop (from 0) are kept
lTrim(list, start, stop) ==
    SubSeq(list, start + 1, IF stop + 1 < Len(list) THEN stop + 1 ELSE Len(list))

\* storeMetrics is called with the next snapshot: redis.setEx of the current
\* value is awaited
storeMetrics ==
    /\ metricsHistory.pc \in {"idle", "done"}
    /\ metricsHistory.sample < MaxSamples
    /\ metricsHistory' = [metricsHistory EXCEPT
                              !.pc = "setEx", !.sample = @ + 1, !.stored = FALSE]
    /\ UNCHANGED <<auditVars, alertVars, pipeVars, scorerVars, checkerVars, processVars,
                   currentMetrics, health, anomalyScan, monitorStats>>

\* a cache command of storeMetrics has settled: when it resolved the call goes
\* on (stored tells that the last command has resolved); when it rejected the
\* catch block logs a warning and storeMetrics returns
StoreStep(at, next, ok, list) ==
    /\ metricsHistory.pc = at
    /\ ok \/ metricsHistory.errors < MaxStoreErrors
    /\ metricsHistory' =
          IF ok
          THEN [metricsHistory EXCEPT
                   !.pc = next, !.list = list, !.stored = (next = "done"),
                   !.pushed = IF at = "lPush" THEN @ + 1 ELSE @]
          ELSE [metricsHistory EXCEPT !.pc = "done", !.errors = @ + 1]
    /\ UNCHANGED <<auditVars, alertVars, pipeVars, scorerVars, checkerVars, processVars,
                   currentMetrics, health, anomalyScan, monitorStats>>

SetExReturn(ok) == StoreStep("setEx", "lPush", ok, metricsHistory.list)

LPushReturn(ok) ==
    StoreStep("lPush", "lTrim", ok, lPush(metricsHistory.list, metricsHistory.sample))

LTrimReturn(ok) ==
    StoreStep("lTrim", "expire", ok, lTrim(metricsHistory.list, 0, HistoryLast))

ExpireReturn(ok) == StoreStep("expire", "done", ok, metricsHistory.list)

NextMetrics ==
    \/ storeMetrics
    \/ \E ok \in BOOLEAN : SetExReturn(ok)
    \/ \E ok \in BOOLEAN : LPushReturn(ok)
    \/ \E ok \in BOOLEAN : LTrimReturn(ok)
    \/ \E ok \in BOOLEAN : ExpireReturn(ok)

InitMetricsOnly == AuditIdle /\ AlertIdle /\ InitPipeline /\ InitScorer /\ InitChecker /\ InitMonitor /\ InitProcess

SpecMetrics == InitMetricsOnly /\ [][NextMetrics]_vars

JobSteps(job) ==
    CASE job = "security_scan" ->
            << "checkSystemHealth", "updateThreatPatterns",
               "performComplianceScan", "logSecurityEvent" >>
      [] job = "daily_report" ->
            << "getDailyThreatSummary", "getDailyComplianceSummary",
               "getDailyAlertSummary", "logSecurityEvent", "sendDailyReport" >>
      [] job = "cleanup" -> << "cleanupOldLogs", "redisEval" >>
      [] job = "integrity_check" -> << "find", "replaceOne" >>

\* the time of a job has come: cron calls the callback of the job, dailyCheck
\* calls performDailyIntegrityCheck; the run starts and reaches its first await
JobDue(job) ==
    /\ Len(jobRuns[job]) < MaxRuns
    /\ jobRuns' = [jobRuns EXCEPT ![job] = Append(@, 1)]
    /\ UNCHANGED <<auditVars, alertVars, pipeVars, scorerVars, checkerVars,
                   monitorVars, shutdown>>

\* a sequence without its element i
Remove(s, i) == SubSeq(s, 1, i - 1) \o SubSeq(s, i + 1, Len(s))

\* the await of run i of a job returns: the run goes on to its next await, or
\* it ends, after its last await or in its catch block when the await threw
JobStepReturn(job, i, ok) ==
    /\ i \in 1..Len(jobRuns[job])
    /\ jobRuns' =
          IF ok /\ jobRuns[job][i] < Len(JobSteps(job))
          THEN [jobRuns EXCEPT ![job][i] = @ + 1]
          ELSE [jobRuns EXCEPT ![job] = Remove(@, i)]
    /\ UNCHANGED <<auditVars, alertVars, pipeVars, scorerVars, checkerVars,
                   monitorVars, shutdown>>

NextJobs ==
    \/ \E job \in ScheduledJobs : JobDue(job)
    \/ \E job \in ScheduledJobs, i \in 1..MaxRuns, ok \in BOOLEAN :
          JobStepReturn(job, i, ok)

InitJobsOnly == AuditIdle /\ AlertIdle /\ InitPipeline /\ InitScorer /\ InitChecker /\ InitMonitor /\ InitProcess

SpecJobs == InitJobsOnly /\ [][NextJobs]_vars

\* C29: two runs of the same scheduled job never overlap: a run that comes
\* due while the previous run of the job has not finished is skipped.
C29_NoOverlap ==
    \A job \in ScheduledJobs : Len(jobRuns[job]) <= 1


(***************************************************************************)
(* Shutdown (app.js gracefulShutdown) beside the audit logger.             *)
(***************************************************************************)

\* gracefulShutdown(signal) up to `await mongoose.connection.close()`; a second
\* signal finds isShuttingDown set and returns
gracefulShutdown ==
    /\ ~shutdown.isShuttingDown
    /\ shutdown' = [isShuttingDown |-> TRUE, pc |-> "mongoClose"]
    /\ UNCHANGED <<auditVars, alertVars, pipeVars, scorerVars, checkerVars,
                   monitorVars, jobRuns>>

\* mongoose.connection.close() returns: the connection to the document store
\* is closed, and gracefulShutdown goes on to `await this.redisClient.quit()`;
\* when close() throws the catch block ends the process
MongoCloseReturn(ok) ==
    /\ shutdown.pc = "mongoClose"
    /\ mongoUp' = FALSE
    /\ searchResult' = <<>>
    /\ shutdown' = [shutdown EXCEPT !.pc = IF ok THEN "redisQuit" ELSE "exited"]
    /\ UNCHANGED <<cipherOk, logBuffer, auditStore, auditIntegrity, flush, now,
                   nextId, integrityViolations, tampered, violations,
                   lastCheckDay, recordOutcome, alertVars, pipeVars, scorerVars,
                   checkerVars, monitorVars, jobRuns>>

\* redisClient.quit() returns or throws: process.exit
RedisQuitReturn ==
    /\ shutdown.pc = "redisQuit"
    /\ shutdown' = [shutdown EXCEPT !.pc = "exited"]
    /\ UNCHANGED <<auditVars, alertVars, pipeVars, scorerVars, checkerVars,
                   monitorVars, jobRuns>>

\* the audit logger runs until the process has exited; the connection that
\* gracefulShutdown closed does not come back
NextShutdown ==
    \/ /\ shutdown.pc # "exited"
       /\ NextAudit
       /\ shutdown.pc = "redisQuit" => ~mongoUp'
    \/ gracefulShutdown
    \/ \E ok \in BOOLEAN : MongoCloseReturn(ok)
    \/ RedisQuitReturn

SpecShutdown == InitAuditOnly /\ [][NextShutdown]_vars

\* C30: on shutdown a flush that is in flight completes its bulk write before
\* the connection to the document store is closed: the connection is not
\* closed while an execution of flushLogBuffer is at insertMany.
C30_FlushBeforeClose ==
    [][(shutdown.pc = "mongoClose" /\ shutdown'.pc # "mongoClose")
          => \A f \in 1..MaxFlush : flush[f].pc # "insertMany"]_vars

=============================================================================
